---- MODULE Spec2Model ----
(***************************************************************************)
(* Model of the client side of BlockStore: the Merkle integrity engine,    *)
(* the Shamir-style key splitter, the single-layer AES-GCM file codec, the *)
(* multi-layer ("onion") codec, the key file and its readers, the brute    *)
(* force of the advanced decryptor, the FileUpload component with the      *)
(* saved key, the security presets, the audit log and storeFile.           *)
(*                                                                         *)
(* Conventions.  A JavaScript string is a sequence of character codes      *)
(* (ASCII), a Uint8Array / ArrayBuffer of plain bytes is a sequence of     *)
(* numbers 0..255.  WebCrypto's AES-GCM is modelled symbolically: a        *)
(* ciphertext remembers the key bytes, the IV and whether a bit of it was  *)
(* changed, and decrypts only under the same key bytes and IV when intact. *)
(***************************************************************************)
EXTENDS Integers, Sequences, FiniteSets, TLC

VARIABLES
    chunks,     \* Merkle: the chunk list handed to generateMerkleTree
    merkle,     \* Merkle: what generateMerkleTree returned
    verif,      \* Merkle: the last verifyMerkleProof call and its result
    probe,      \* Merkle: a verifyMerkleProof call on arguments of any origin
    secret,     \* Shamir: the secret string and the (numShares, threshold) of the split
    shares,     \* Shamir: what splitKey returned
    combined,   \* Shamir: the last combineShares call and its outcome
    file,       \* File codec: the file handed to encryptFile
    encKey,     \* File codec: the key string handed to encryptFile
    encrypted,  \* File codec: what encryptFile returned or threw
    decrypted,  \* File codec: the last decryptFile call and its outcome
    download,   \* File codec: the last FileDownload.handleDecryptAndDownload run
    request,    \* Onion: the buffer and primary key handed to multiLayerEncrypt
    onion,      \* Onion: what multiLayerEncrypt returned
    libOut,     \* Onion: the last lib multiLayerDecrypt call and its outcome
    cmpOut,     \* Onion: the last MultiLayerDecryptor run and its outcome
    keyFile,    \* Key file: the upload's file name and key, and the key file written
    keyRead,    \* Key file: the last reading of the key file and its outcome
    brute,      \* Brute force: the bruteForceDecrypt run
    upload,     \* Upload: the state of the FileUpload component and of its handleUpload run
    storage,    \* Upload: what localStorage holds (settings, saved key, metadata)
    security,   \* Security settings: the persisted settings and the last preset result
    audit,      \* Audit log: the stored event list and the logAuditEvent calls under way
    store       \* storeFile: the position and outcome of one storeFile call

merkleVars == <<chunks, merkle, verif, probe>>

shamirVars == <<secret, shares, combined>>

fileVars == <<file, encKey, encrypted, decrypted, download>>

onionVars == <<request, onion, libOut, cmpOut>>

keyFileVars == <<keyFile, keyRead>>

bruteVars == <<brute>>

uploadVars == <<upload, storage>>

securityVars == <<security>>

auditVars == <<audit>>

storeVars == <<store>>

vars == <<chunks, merkle, verif, probe, secret, shares, combined,
          file, encKey, encrypted, decrypted, download, request, onion, libOut, cmpOut,
          keyFile, keyRead, brute, upload, storage, security, audit, store>>

(***************************************************************************)
(* Strings and bytes                                                       *)
(***************************************************************************)

RECURSIVE BitXor(_, _)
\* a ^ b on non-negative integers
BitXor(a, b) ==
    IF a = 0 THEN b
    ELSE IF b = 0 THEN a
    ELSE (((a % 2) + (b % 2)) % 2) + 2 * BitXor(a \div 2, b \div 2)

\* One digit of Number.prototype.toString(16): '0'..'9', 'a'..'f'
HexChar(d) == IF d < 10 THEN 48 + d ELSE 87 + d

\* b.toString(16).padStart(2, "0") for a byte b
Hex2(b) == <<HexChar(b \div 16), HexChar(b % 16)>>

\* Array.from(bytes).map((b) => b.toString(16).padStart(2, "0")).join("")
HexJoin(bytes) ==
    [i \in 1..(2 * Len(bytes)) |-> Hex2(bytes[(i + 1) \div 2])[2 - (i % 2)]]

(***************************************************************************)
(* Secret splitter / combiner (src/lib/audit.ts)                           *)
(*                                                                         *)
(* The code computes in IEEE doubles.  The model computes the same values  *)
(* exactly: every integer it meets is below 2^53, where doubles are exact, *)
(* and an interpolation result is a rational that Math.round takes to the  *)
(* nearest integer (the rounding error of the few double operations is far *)
(* below 1/2 at these magnitudes).  A rational is kept as a mixed number   *)
(* [w, n, d] = w + n/d with d > 0 and 0 <= n < d.                          *)
(***************************************************************************)

RECURSIVE Gcd(_, _)
Gcd(a, b) == IF b = 0 THEN a ELSE Gcd(b, a % b)

Abs(a) == IF a < 0 THEN -a ELSE a

\* whole + num/den brought to the normal form
Mixed(whole, num, den) ==
    LET q == num \div den
        r == num % den
        g == IF r = 0 THEN den ELSE Gcd(den, r)
    IN  [w |-> whole + q, n |-> r \div g, d |-> den \div g]

\* m * (a / b), b # 0
MixedMulFrac(m, a, b) ==
    LET aa == IF b < 0 THEN -a ELSE a
        bb == Abs(b)
        wa == m.w * aa
    IN  Mixed(wa \div bb, (wa % bb) * m.d + m.n * aa, m.d * bb)

MixedAdd(m1, m2) ==
    LET l == (m1.d * m2.d) \div Gcd(m1.d, m2.d)
    IN  Mixed(m1.w + m2.w, m1.n * (l \div m1.d) + m2.n * (l \div m2.d), l)

\* Math.round: the nearest integer, halves upwards
MathRound(m) == IF 2 * m.n >= m.d THEN m.w + 1 ELSE m.w

RECURSIVE Pow(_, _)
Pow(b, e) == IF e = 0 THEN 1 ELSE b * Pow(b, e - 1)

\* new TextEncoder().encode(s) for a string of ASCII characters
TextEncode(s) == s

\* new TextDecoder().decode(bytes): a byte below 128 is its character, a
\* byte that is no valid UTF-8 on its own becomes U+FFFD
TextDecode(bytes) == [i \in 1..Len(bytes) |-> IF bytes[i] < 128 THEN bytes[i] ELSE 65533]

RECURSIVE Decimal(_)
\* String(n) for an integer 0 <= n < 10^21
Decimal(n) == IF n < 10 THEN <<48 + n>> ELSE Append(Decimal(n \div 10), 48 + (n % 10))

RECURSIVE ParseNumber(_, _)
\* Number(s) for a string of decimal digits ("" is 0)
ParseNumber(s, acc) ==
    IF s = <<>> THEN acc ELSE ParseNumber(Tail(s), 10 * acc + (Head(s) - 48))

Colon == 58

\* `${x}:${y}`
ShareString(x, y) == Decimal(x) \o <<Colon>> \o Decimal(y)

\* The position of the k-th separator in s; 0 for k = 0, and Len(s) + 1 when
\* there are fewer than k separators
SeparatorAt(s, sep, k) ==
    LET at == {i \in 1..Len(s) : s[i] = sep}
    IN  IF k = 0 THEN 0
        ELSE IF k > Cardinality(at) THEN Len(s) + 1
        ELSE CHOOSE i \in at : Cardinality({j \in at : j < i}) = k - 1

\* s.split(sep): the pieces of s between the separators (piece is what comes
\* before s in the first piece)
SplitAt(s, sep, piece) ==
    [k \in 1..(Cardinality({i \in 1..Len(s) : s[i] = sep}) + 1) |->
        (IF k = 1 THEN piece ELSE <<>>)
        \o SubSeq(s, SeparatorAt(s, sep, k - 1) + 1, SeparatorAt(s, sep, k) - 1)]

\* const [x, y] = share.split(":").map(Number)
ParseShare(share) ==
    LET parts == SplitAt(share, Colon, <<>>)
    IN  [x |-> ParseNumber(parts[1], 0), y |-> ParseNumber(parts[2], 0)]

RECURSIVE SecretValue(_, _)
\* secretBytes.reduce((acc, byte, i) => acc + byte * Math.pow(256, i), 0)
SecretValue(bytes, i) ==
    IF i > Len(bytes) THEN 0
    ELSE bytes[i] * Pow(256, i - 1) + SecretValue(bytes, i + 1)

RECURSIVE EvalPoly(_, _, _)
\* y += coefficients[i] * Math.pow(x, i), i = 0 .. coefficients.length - 1
EvalPoly(coefficients, x, i) ==
    IF i > Len(coefficients) THEN 0
    ELSE coefficients[i] * Pow(x, i - 1) + EvalPoly(coefficients, x, i + 1)

\* splitKey with the random coefficients it drew (threshold - 1 of them)
splitKey(s, numShares, threshold, randomCoefficients) ==
    LET secretValue  == SecretValue(TextEncode(s), 1)
        coefficients == <<secretValue>> \o randomCoefficients
    IN  [x \in 1..numShares |-> ShareString(x, EvalPoly(coefficients, x, 1))]

RECURSIVE LagrangeTerm(_, _, _, _, _)
\* The inner loop over j: term = term * (points[j].x / (points[j].x - points[i].x))
LagrangeTerm(points, threshold, i, j, term) ==
    IF j > threshold THEN term
    ELSE IF i = j THEN LagrangeTerm(points, threshold, i, j + 1, term)
    ELSE LagrangeTerm(points, threshold, i, j + 1,
                      MixedMulFrac(term, points[j].x, points[j].x - points[i].x))

RECURSIVE LagrangeSum(_, _, _)
\* The outer loop over i: secret += term
LagrangeSum(points, threshold, i) ==
    IF i > threshold THEN [w |-> 0, n |-> 0, d |-> 1]
    ELSE MixedAdd(LagrangeTerm(points, threshold, i, 1, [w |-> points[i].y, n |-> 0, d |-> 1]),
                  LagrangeSum(points, threshold, i + 1))

RECURSIVE SecretBytes(_)
\* while (tempSecret > 0) { push(tempSecret % 256); tempSecret = floor(tempSecret / 256) }
SecretBytes(tempSecret) ==
    IF tempSecret > 0
    THEN <<tempSecret % 256>> \o SecretBytes(tempSecret \div 256)
    ELSE <<>>

\* The body of combineShares after its guard.  points[i] of a missing share is
\* undefined, and reading its y is a TypeError.
Interpolate(shs, threshold) ==
    LET points == [k \in 1..Len(shs) |-> ParseShare(shs[k])]
    IN  IF Len(shs) < threshold
        THEN [kind |-> "TypeError", parsed |-> Len(shs), value |-> <<>>]
        ELSE [kind |-> "returned", parsed |-> Len(shs),
              value |-> TextDecode(SecretBytes(MathRound(LagrangeSum(points, threshold, 1))))]

\* A guard that lets a call with threshold - 1 shares through
combineSharesOffByOne(shs, threshold) ==
    IF Len(shs) < threshold - 1
    THEN [kind |-> "Error", parsed |-> 0, value |-> <<>>]
    ELSE Interpolate(shs, threshold)

\* combineShares: kind is "returned" with the value, or the error thrown;
\* parsed counts the shares parsed before the call ended
combineShares(shs, threshold) ==
    IF Len(shs) < threshold
    THEN [kind |-> "Error", parsed |-> 0, value |-> <<>>]
    ELSE Interpolate(shs, threshold)

(***************************************************************************)
(* Merkle integrity engine (src/lib/audit.ts)                              *)
(***************************************************************************)

\* The constant of the XOR "hash"
XorMask == 66

\* The leaf hash: every byte XOR 0x42, as lower-case hex
LeafHash(chunk) == HexJoin([i \in 1..Len(chunk) |-> BitXor(chunk[i], XorMask)])

\* The pair hash: the hex of the UTF-8 bytes of the concatenated strings
\* (the strings are ASCII, so the UTF-8 bytes are the character codes)
CombineHash(left, right) == HexJoin(left \o right)

\* One pass of the while loop in which an odd last node is paired with itself
\* (the padding of other Merkle constructions) instead of promoted
NextLevelDuplicating(level) ==
    [k \in 1..((Len(level) + 1) \div 2) |->
        IF 2 * k <= Len(level)
        THEN CombineHash(level[2 * k - 1], level[2 * k])
        ELSE CombineHash(level[2 * k - 1], level[2 * k - 1])]

\* One pass of the while loop: pairs are combined, an odd last node is promoted
NextLevel(level) ==
    [k \in 1..((Len(level) + 1) \div 2) |->
        IF 2 * k <= Len(level)
        THEN CombineHash(level[2 * k - 1], level[2 * k])
        ELSE level[2 * k - 1]]

RECURSIVE BuildTreeStopsAtTwo(_, _)
\* The while loop with the condition level.length > 2: it stops one level
\* below the top whenever a level of two nodes is reached
BuildTreeStopsAtTwo(level, tree) ==
    IF Len(level) > 2
    THEN BuildTreeStopsAtTwo(NextLevel(level), <<NextLevel(level)>> \o tree)
    ELSE tree

RECURSIVE BuildTree(_, _)
\* tree after the while loop; tree[1] is the top level, tree[Len] the leaves
BuildTree(level, tree) ==
    IF Len(level) > 1
    THEN BuildTree(NextLevel(level), <<NextLevel(level)>> \o tree)
    ELSE tree

RECURSIVE ProofWalk(_, _, _, _)
\* The inner for loop of the proof generation: j is the 1-based position in
\* tree (the code's j + 1), index the 0-based node index on that level
ProofWalk(tree, j, index, proof) ==
    IF j <= 1 THEN proof
    ELSE LET isRight == (index % 2 = 0)
             siblingIndex == IF isRight THEN index + 1 ELSE index - 1
             step == IF siblingIndex < Len(tree[j])
                     THEN Append(proof, tree[j][siblingIndex + 1])
                     ELSE proof
         IN  ProofWalk(tree, j - 1, index \div 2, step)

\* The array tree of generateMerkleTree after the while loop, top level first
MerkleLevels(cs) ==
    LET leaves == [i \in 1..Len(cs) |-> LeafHash(cs[i])]
    IN  BuildTree(leaves, <<leaves>>)

generateMerkleTree(cs) ==
    LET leaves == [i \in 1..Len(cs) |-> LeafHash(cs[i])]
        tree   == BuildTree(leaves, <<leaves>>)
    IN  [done   |-> TRUE,
         root   |-> tree[1][1],
         proofs |-> [i \in 1..Len(cs) |-> ProofWalk(tree, Len(tree), i - 1, <<>>)]]

RECURSIVE FoldProof(_, _)
\* The for loop of verifyMerkleProof: hash := hex(hash + sibling)
FoldProof(hash, proof) ==
    IF proof = <<>> THEN hash
    ELSE FoldProof(CombineHash(hash, Head(proof)), Tail(proof))

\* verifyMerkleProof with hash.startsWith(root) in the place of hash === root
verifyMerkleProofStartsWith(chunk, proof, root) ==
    LET hash == FoldProof(LeafHash(chunk), proof)
    IN  Len(root) <= Len(hash) /\ SubSeq(hash, 1, Len(root)) = root

verifyMerkleProof(chunk, proof, root) == FoldProof(LeafHash(chunk), proof) = root

(***************************************************************************)
(* Codecs shared by the encryptors: hex keys, base64, JSON, SHA-256        *)
(***************************************************************************)

\* The value of a hex digit character of either case, -1 for any other character
HexDigitValue(c) ==
    IF c >= 48 /\ c <= 57 THEN c - 48
    ELSE IF c >= 97 /\ c <= 102 THEN c - 87
    ELSE IF c >= 65 /\ c <= 70 THEN c - 55
    ELSE -1

\* Number.parseInt(piece, 16) stored into a Uint8Array, for a piece of one or
\* two characters: the leading hex digits count, and NaN is stored as 0
ParseInt16(piece) ==
    LET d1 == HexDigitValue(piece[1])
        d2 == IF Len(piece) > 1 THEN HexDigitValue(piece[2]) ELSE -1
    IN  IF d1 < 0 THEN 0
        ELSE IF d2 < 0 THEN d1
        ELSE 16 * d1 + d2

RECURSIVE HexToBytes(_)
\* new Uint8Array(s.match(/.{1,2}/g)!.map((byte) => Number.parseInt(byte, 16)))
\* for a non-empty s (for "" match returns null and the map throws TypeError)
HexToBytes(s) ==
    IF s = <<>> THEN <<>>
    ELSE IF Len(s) = 1 THEN <<ParseInt16(s)>>
    ELSE <<ParseInt16(SubSeq(s, 1, 2))>> \o HexToBytes(SubSeq(s, 3, Len(s)))

\* /^[0-9a-f]{n}$/i.test(s)
IsHexOfLength(s, n) == Len(s) = n /\ \A i \in 1..Len(s) : HexDigitValue(s[i]) >= 0

\* The base64 alphabet: A-Z a-z 0-9 + /
Base64Char(v) ==
    IF v < 26 THEN 65 + v
    ELSE IF v < 52 THEN 97 + (v - 26)
    ELSE IF v < 62 THEN 48 + (v - 52)
    ELSE IF v = 62 THEN 43
    ELSE 47

Base64Value(c) ==
    IF c >= 65 /\ c <= 90 THEN c - 65
    ELSE IF c >= 97 /\ c <= 122 THEN c - 97 + 26
    ELSE IF c >= 48 /\ c <= 57 THEN c - 48 + 52
    ELSE IF c = 43 THEN 62
    ELSE IF c = 47 THEN 63
    ELSE -1

Base64Pad == 61

RECURSIVE Btoa(_)
\* btoa of the binary string of the bytes
Btoa(bytes) ==
    IF bytes = <<>> THEN <<>>
    ELSE IF Len(bytes) = 1
    THEN <<Base64Char(bytes[1] \div 4), Base64Char((bytes[1] % 4) * 16),
           Base64Pad, Base64Pad>>
    ELSE IF Len(bytes) = 2
    THEN <<Base64Char(bytes[1] \div 4),
           Base64Char((bytes[1] % 4) * 16 + (bytes[2] \div 16)),
           Base64Char((bytes[2] % 16) * 4), Base64Pad>>
    ELSE <<Base64Char(bytes[1] \div 4),
           Base64Char((bytes[1] % 4) * 16 + (bytes[2] \div 16)),
           Base64Char((bytes[2] % 16) * 4 + (bytes[3] \div 64)),
           Base64Char(bytes[3] % 64)>> \o Btoa(SubSeq(bytes, 4, Len(bytes)))

\* atob's first steps: with a length divisible by 4, one or two trailing '=' go
StripPad(s) ==
    IF Len(s) > 0 /\ Len(s) % 4 = 0 /\ s[Len(s)] = Base64Pad
    THEN IF Len(s) > 1 /\ s[Len(s) - 1] = Base64Pad
         THEN SubSeq(s, 1, Len(s) - 2)
         ELSE SubSeq(s, 1, Len(s) - 1)
    ELSE s

RECURSIVE AtobBytes(_)
\* The bytes of a valid unpadded base64 string; left-over bits are dropped
AtobBytes(s) ==
    IF Len(s) < 2 THEN <<>>
    ELSE LET v1 == Base64Value(s[1])
             v2 == Base64Value(s[2])
         IN  IF Len(s) = 2 THEN <<v1 * 4 + (v2 \div 16)>>
             ELSE LET v3 == Base64Value(s[3])
                  IN  IF Len(s) = 3
                      THEN <<v1 * 4 + (v2 \div 16), (v2 % 16) * 16 + (v3 \div 4)>>
                      ELSE <<v1 * 4 + (v2 \div 16), (v2 % 16) * 16 + (v3 \div 4),
                             (v3 % 4) * 64 + Base64Value(s[4])>>
                           \o AtobBytes(SubSeq(s, 5, Len(s)))

\* atob: ok is FALSE where atob throws InvalidCharacterError
Atob(s) ==
    LET t == StripPad(s)
        ok == Len(t) % 4 # 1 /\ \A i \in 1..Len(t) : Base64Value(t[i]) >= 0
    IN  [ok |-> ok, bytes |-> IF ok THEN AtobBytes(t) ELSE <<>>]

\* bufferToBase64 (the same expression is inlined in lib/audit.ts)
bufferToBase64(buffer) == Btoa(buffer)

\* base64ToBuffer: ok is FALSE where it throws Error("Invalid base64 string")
base64ToBuffer(base64) == Atob(base64)

Quote == 34
Comma == 44
LeftBracket == 91
RightBracket == 93

RECURSIVE JsonItems(_)
JsonItems(strings) ==
    IF strings = <<>> THEN <<>>
    ELSE <<Quote>> \o Head(strings) \o <<Quote>>
         \o (IF Len(strings) > 1 THEN <<Comma>> ELSE <<>>) \o JsonItems(Tail(strings))

\* JSON.stringify of an array of strings that need no escaping
JsonStringify(strings) == <<LeftBracket>> \o JsonItems(strings) \o <<RightBracket>>

\* JSON.parse of the text of an array of such strings; ok is FALSE where it
\* throws SyntaxError
JsonParse(text) ==
    LET framed == Len(text) >= 2 /\ text[1] = LeftBracket /\ text[Len(text)] = RightBracket
        inner  == IF framed THEN SubSeq(text, 2, Len(text) - 1) ELSE <<>>
        pieces == IF inner = <<>> THEN <<>> ELSE SplitAt(inner, Comma, <<>>)
        quoted(q) == Len(q) >= 2 /\ q[1] = Quote /\ q[Len(q)] = Quote
        ok     == framed /\ \A i \in 1..Len(pieces) : quoted(pieces[i])
    IN  [ok |-> ok,
         value |-> IF ok THEN [i \in 1..Len(pieces) |-> SubSeq(pieces[i], 2, Len(pieces[i]) - 1)]
                   ELSE <<>>]

\* The digest is computed modulo this prime
DigestPrime == 46337

RECURSIVE PowerOf31(_)
PowerOf31(k) ==
    IF k = 0 THEN 1
    ELSE IF k % 2 = 0 THEN LET half == PowerOf31(k \div 2) IN (half * half) % DigestPrime
    ELSE (31 * PowerOf31(k - 1)) % DigestPrime

RECURSIVE ByteCode(_, _, _)
\* A number that stands for bytes[lo..hi] in the digest below
ByteCode(bytes, lo, hi) ==
    IF lo > hi THEN 0
    ELSE IF lo = hi THEN (bytes[lo] + 1) % DigestPrime
    ELSE (ByteCode(bytes, lo, (lo + hi) \div 2) * PowerOf31(hi - ((lo + hi) \div 2))
          + ByteCode(bytes, ((lo + hi) \div 2) + 1, hi)) % DigestPrime

\* crypto.subtle.digest("SHA-256", data): 32 values that stand for digest
\* bytes.  They are >= 256, so no digest byte equals a byte drawn at random
\* or typed by the user, and the digests of the inputs met here differ at
\* every position: SHA-256 without collisions.
Sha256(bytes) ==
    LET code == ByteCode(bytes, 1, Len(bytes))
    IN  [i \in 1..32 |-> 256 + 32 * code + (i - 1)]

\* new Uint8Array(n) with .set(bytes.slice(0, n)): n bytes, zero filled
ZeroPadded(bytes, n) == [i \in 1..n |-> IF i <= Len(bytes) THEN bytes[i] ELSE 0]

\* bytes.slice(0, n)
Slice(bytes, n) == SubSeq(bytes, 1, IF Len(bytes) < n THEN Len(bytes) ELSE n)

(***************************************************************************)
(* WebCrypto AES-GCM, symbolically.  A buffer is plain bytes under a stack *)
(* of encryption layers, each remembering the key bytes and IV it was      *)
(* applied with; damaged says that a bit of the outermost ciphertext was   *)
(* changed or that bytes of it were cut off.                               *)
(***************************************************************************)

PlainBuffer(bytes) == [plain |-> bytes, layers |-> <<>>, damaged |-> FALSE]

\* importKey("raw", keyBytes, {name: "AES-..."}) accepts 128, 192 and 256 bits
ImportKeyOk(keyBytes) == Len(keyBytes) \in {16, 24, 32}

\* subtle.encrypt({name: "AES-GCM", iv, tagLength: 128}, key, data)
AesGcmEncrypt(keyBytes, iv, data) ==
    [data EXCEPT !.layers = Append(@, [key |-> keyBytes, iv |-> iv])]

\* What an unauthenticated decryption leaves of a ciphertext it does not fit
Garbage == [plain |-> <<-1>>, layers |-> <<>>, damaged |-> FALSE]

Fits(keyBytes, iv, data) ==
    /\ ~data.damaged
    /\ data.layers # <<>>
    /\ data.layers[Len(data.layers)] = [key |-> keyBytes, iv |-> iv]

Unwrapped(data) == [data EXCEPT !.layers = SubSeq(@, 1, Len(@) - 1)]

\* A cipher without authentication: it decrypts whatever it is given
UnauthenticatedDecrypt(keyBytes, iv, data) ==
    [ok |-> TRUE, data |-> IF Fits(keyBytes, iv, data) THEN Unwrapped(data) ELSE Garbage]

\* subtle.decrypt({name: "AES-GCM", iv, tagLength: 128}, key, data): ok is
\* FALSE where it rejects with OperationError (the tag does not verify)
AesGcmDecrypt(keyBytes, iv, data) ==
    [ok |-> Fits(keyBytes, iv, data),
     data |-> IF Fits(keyBytes, iv, data) THEN Unwrapped(data) ELSE data]

\* data.slice(0, data.byteLength - 16): the ciphertext without its last 16 bytes
WithoutTag(data) == [data EXCEPT !.damaged = TRUE]

(***************************************************************************)
(* Single-layer encryptor / decryptor (src/unnamed/part_000)               *)
(***************************************************************************)

ENCRYPTION_ALGORITHM == "AES-GCM"

MAX_ENCRYPTION_SIZE == 15728640

NoFile == [name |-> <<>>, type |-> "", size |-> 0, content |-> PlainBuffer(<<>>)]

NoMetadata == [algorithm |-> "", iv |-> <<>>, originalFileName |-> <<>>,
               originalFileSize |-> <<>>, originalFileType |-> ""]

\* throw new Error(`Failed to ...: ${message}`)
Failed(message) ==
    [kind |-> "Error", message |-> message, file |-> NoFile, metadata |-> NoMetadata]

\* encryptFile with the IV it drew
encryptFile(f, encryptionKey, iv) ==
    IF f.size > MAX_ENCRYPTION_SIZE THEN Failed("File is too large for encryption")
    ELSE IF encryptionKey = <<>> THEN Failed("TypeError")
    ELSE IF ~ImportKeyOk(HexToBytes(encryptionKey)) THEN Failed("DataError")
    ELSE [kind |-> "returned", message |-> "",
          file |-> [name |-> Append(f.name, ".enc"),
                    type |-> "application/octet-stream",
                    size |-> f.size + 16,
                    content |-> AesGcmEncrypt(HexToBytes(encryptionKey), iv, f.content)],
          metadata |-> [algorithm |-> ENCRYPTION_ALGORITHM,
                        iv |-> bufferToBase64(iv),
                        originalFileName |-> f.name,
                        originalFileSize |-> Decimal(f.size),
                        originalFileType |-> f.type]]

\* The statements of encryptFile with the size guard placed after the read of the file,
\* the draw of the IV and the key import
encryptFileStepsGuardLate(f, encryptionKey) ==
    IF encryptionKey = <<>> THEN <<"arrayBuffer", "match">>
    ELSE IF ~ImportKeyOk(HexToBytes(encryptionKey))
         THEN <<"arrayBuffer", "match", "getRandomValues", "importKey">>
    ELSE IF f.size > MAX_ENCRYPTION_SIZE
         THEN <<"arrayBuffer", "match", "getRandomValues", "importKey", "file.size">>
    ELSE <<"arrayBuffer", "match", "getRandomValues", "importKey", "file.size", "encrypt">>

\* What encryptFile touches, in the order of its statements, up to the
\* statement that throws: the size guard, the read of the file, the parse of
\* the key string, the draw of the IV, the key import and the encryption
encryptFileSteps(f, encryptionKey) ==
    IF f.size > MAX_ENCRYPTION_SIZE THEN <<"file.size">>
    ELSE IF encryptionKey = <<>> THEN <<"file.size", "arrayBuffer", "match">>
    ELSE IF ~ImportKeyOk(HexToBytes(encryptionKey))
         THEN <<"file.size", "arrayBuffer", "match", "getRandomValues", "importKey">>
    ELSE <<"file.size", "arrayBuffer", "match", "getRandomValues", "importKey", "encrypt">>

\* encryptedFile.name.replace(/\.enc$/, "")
WithoutEnc(name) ==
    IF name # <<>> /\ name[Len(name)] = ".enc" THEN SubSeq(name, 1, Len(name) - 1) ELSE name

\* metadata.originalFileName || encryptedFile.name.replace(/\.enc$/, "")
OutputName(encryptedFile, metadata) ==
    IF metadata.originalFileName # <<>> THEN metadata.originalFileName
    ELSE WithoutEnc(encryptedFile.name)

\* guessMimeType, for the extensions of the files met here
guessMimeType(filename) ==
    IF filename = <<>> THEN ""
    ELSE IF filename[Len(filename)] = ".pdf" THEN "application/pdf"
    ELSE IF filename[Len(filename)] = ".txt" THEN "text/plain"
    ELSE ""

\* The file decryptFile builds from the bytes it hands out
DecryptedFile(encryptedFile, metadata, content) ==
    [name |-> OutputName(encryptedFile, metadata),
     type |-> IF metadata.originalFileType # "" THEN metadata.originalFileType
              ELSE IF guessMimeType(OutputName(encryptedFile, metadata)) # ""
              THEN guessMimeType(OutputName(encryptedFile, metadata))
              ELSE "application/octet-stream",
     size |-> encryptedFile.size - 16,
     content |-> content]

\* A decryptFile that hands out the bytes it read instead of the decrypted ones
decryptFileNoDecrypt(encryptedFile, metadata, encryptionKey) ==
    [kind |-> "returned", message |-> "",
     file |-> DecryptedFile(encryptedFile, metadata, encryptedFile.content),
     metadata |-> metadata]

\* A decryptFile whose cipher does not authenticate
decryptFileUnauthenticated(encryptedFile, metadata, encryptionKey) ==
    IF metadata.iv = <<>> \/ encryptionKey = <<>> \/ ~base64ToBuffer(metadata.iv).ok
       \/ ~ImportKeyOk(HexToBytes(encryptionKey))
    THEN Failed("Error")
    ELSE [kind |-> "returned", message |-> "",
          file |-> DecryptedFile(encryptedFile, metadata,
                       UnauthenticatedDecrypt(HexToBytes(encryptionKey),
                           base64ToBuffer(metadata.iv).bytes, encryptedFile.content).data),
          metadata |-> metadata]

decryptFile(encryptedFile, metadata, encryptionKey) ==
    IF metadata.iv = <<>> THEN Failed("Missing IV in encryption metadata")
    ELSE IF encryptionKey = <<>> THEN Failed("TypeError")
    ELSE IF ~base64ToBuffer(metadata.iv).ok THEN Failed("Invalid base64 string")
    ELSE IF ~ImportKeyOk(HexToBytes(encryptionKey)) THEN Failed("DataError")
    ELSE LET out == AesGcmDecrypt(HexToBytes(encryptionKey),
                                  base64ToBuffer(metadata.iv).bytes, encryptedFile.content)
         IN  IF ~out.ok THEN Failed("OperationError")
             ELSE [kind |-> "returned", message |-> "",
                   file |-> DecryptedFile(encryptedFile, metadata, out.data),
                   metadata |-> metadata]

\* FileDownload.handleDecryptAndDownload (src/unnamed/part_005) on the stored
\* file and its metadata with the key typed into the dialog; fetched tells
\* whether fetch(fileUrl) gave the file.  error is the message set, reached
\* whether decryptFile was called, saved whether the decrypted file was
\* handed to the browser for download
handleDecryptAndDownload(stored, encryptionMetadata, encryptionKey, fetched) ==
    IF encryptionMetadata = NoMetadata
    THEN [error |-> "Encryption metadata is missing", reached |-> FALSE, saved |-> FALSE,
          file |-> NoFile]
    ELSE IF encryptionKey = <<>>
    THEN [error |-> "Please enter your encryption key", reached |-> FALSE, saved |-> FALSE,
          file |-> NoFile]
    ELSE IF ~IsHexOfLength(encryptionKey, 64)
    THEN [error |-> "Invalid encryption key format", reached |-> FALSE, saved |-> FALSE,
          file |-> NoFile]
    ELSE IF ~fetched
    THEN [error |-> "Failed to fetch file", reached |-> FALSE, saved |-> FALSE,
          file |-> NoFile]
    ELSE LET out == decryptFile(stored, encryptionMetadata, encryptionKey)
         IN  IF out.kind = "returned"
             THEN [error |-> "", reached |-> TRUE, saved |-> TRUE, file |-> out.file]
             ELSE [error |-> "Failed to decrypt file", reached |-> TRUE, saved |-> FALSE,
                   file |-> NoFile]

(***************************************************************************)
(* Multi-layer ("onion") encryptor / decryptor (src/lib/audit.ts)          *)
(***************************************************************************)

LAYERS == 3

NoData == PlainBuffer(<<>>)

\* encryptLayerKeys: the AES key bytes made of the primary key string
SealKeyBytes(primaryKey) ==
    IF IsHexOfLength(primaryKey, 32) THEN HexToBytes(primaryKey)
    ELSE IF IsHexOfLength(primaryKey, 64) THEN Slice(HexToBytes(primaryKey), 16)
    ELSE Slice(Sha256(TextEncode(primaryKey)), 16)

\* A key derivation without the branch for 64 hex digits
UnsealKeyBytesNoTruncation(primaryKey) ==
    IF IsHexOfLength(primaryKey, 32) THEN HexToBytes(primaryKey)
    ELSE Slice(Sha256(TextEncode(primaryKey)), 16)

\* decryptLayerKeys: the AES key bytes made of the primary key string
UnsealKeyBytes(primaryKey) ==
    IF IsHexOfLength(primaryKey, 32) THEN HexToBytes(primaryKey)
    ELSE IF IsHexOfLength(primaryKey, 64) THEN Slice(HexToBytes(primaryKey), 16)
    ELSE Slice(Sha256(TextEncode(primaryKey)), 16)

\* encryptLayerKeys that leaves the last layer key out of the array it seals
encryptLayerKeysDropsLast(layerKeys, primaryKey, iv) ==
    [ct |-> AesGcmEncrypt(SealKeyBytes(primaryKey), iv,
                          PlainBuffer(TextEncode(JsonStringify(
                              SubSeq(layerKeys, 1, Len(layerKeys) - 1))))),
     ivBase64 |-> Btoa(iv)]

\* encryptLayerKeys with the IV it drew.  The returned string is
\* btoa(ciphertext) + "." + btoa(iv); its two parts are kept apart, and the
\* first one is kept as the ciphertext it encodes.
encryptLayerKeys(layerKeys, primaryKey, iv) ==
    [ct |-> AesGcmEncrypt(SealKeyBytes(primaryKey), iv,
                          PlainBuffer(TextEncode(JsonStringify(layerKeys)))),
     ivBase64 |-> Btoa(iv)]

RECURSIVE EncryptLayers(_, _, _, _)
\* The loop of multiLayerEncrypt from layer i on (i counts from 1 here), with
\* the key bytes and the IVs it draws
EncryptLayers(currentData, keys, ivs, i) ==
    IF i > LAYERS THEN currentData
    ELSE EncryptLayers(AesGcmEncrypt(HexToBytes(HexJoin(keys[i])), ivs[i], currentData),
                       keys, ivs, i + 1)

\* multiLayerEncrypt with the random values it draws
multiLayerEncrypt(data, primaryKey, keys, ivs, sealIv) ==
    LET layerKeys == [i \in 1..LAYERS |-> HexJoin(keys[i])]
    IN  [called |-> TRUE,
         encryptedData |-> EncryptLayers(data, keys, ivs, 1),
         layerKeys |-> layerKeys,
         metadata |-> [version |-> "1.0",
                       layers |-> [i \in 1..LAYERS |->
                                     [algorithm |-> "AES-GCM", ivBase64 |-> Btoa(ivs[i]),
                                      layerIndex |-> i - 1]],
                       encryptedLayerKeys |-> encryptLayerKeys(layerKeys, primaryKey, sealIv)]]

\* lib decryptLayerKeys: error names the exception that escapes it
decryptLayerKeys(sealed, primaryKey) ==
    IF ~Atob(sealed.ivBase64).ok
    THEN [ok |-> FALSE, error |-> "InvalidCharacterError", keys |-> <<>>]
    ELSE LET out == AesGcmDecrypt(UnsealKeyBytes(primaryKey), Atob(sealed.ivBase64).bytes,
                                  sealed.ct)
         IN  IF ~out.ok THEN [ok |-> FALSE, error |-> "OperationError", keys |-> <<>>]
             ELSE IF ~JsonParse(TextDecode(out.data.plain)).ok
             THEN [ok |-> FALSE, error |-> "SyntaxError", keys |-> <<>>]
             ELSE [ok |-> TRUE, error |-> "",
                   keys |-> JsonParse(TextDecode(out.data.plain)).value]

\* The layer indices in front-to-back order
VisitOrderForward(n) == [j \in 1..n |-> j - 1]

\* for (let i = metadata.layers.length - 1; i >= 0; i--): the indices visited
VisitOrder(n) == [j \in 1..n |-> n - j]

\* An exception that escapes multiLayerDecrypt; stage tells where it arose
Thrown(kind, stage, trace) == [kind |-> kind, stage |-> stage, data |-> NoData, trace |-> trace]

RECURSIVE DecryptLayers(_, _, _, _, _)
\* The loop of lib multiLayerDecrypt over the indices still to visit.  trace
\* lists, for every subtle.decrypt call made, the index, key bytes and IV.
DecryptLayers(currentData, layers, layerKeys, order, trace) ==
    IF order = <<>>
    THEN [kind |-> "returned", stage |-> "done", data |-> currentData, trace |-> trace]
    ELSE LET i == Head(order) + 1
         IN  IF i > Len(layerKeys) THEN Thrown("TypeError", "layer", trace)
             ELSE IF layerKeys[i] = <<>> THEN Thrown("TypeError", "layer", trace)
             ELSE IF Len(HexToBytes(layerKeys[i])) # 16 THEN Thrown("Error", "layer", trace)
             ELSE IF ~Atob(layers[i].ivBase64).ok
             THEN Thrown("InvalidCharacterError", "layer", trace)
             ELSE LET keyBuffer == HexToBytes(layerKeys[i])
                      iv  == Atob(layers[i].ivBase64).bytes
                      out == AesGcmDecrypt(keyBuffer, iv, currentData)
                      step == [index |-> i - 1, key |-> keyBuffer, iv |-> iv]
                  IN  IF ~out.ok THEN Thrown("OperationError", "layer", Append(trace, step))
                      ELSE DecryptLayers(out.data, layers, layerKeys, Tail(order),
                                         Append(trace, step))

\* lib multiLayerDecrypt: kind is "returned" or the name of the exception
multiLayerDecrypt(encryptedData, metadata, primaryKey) ==
    LET unsealed == decryptLayerKeys(metadata.encryptedLayerKeys, primaryKey)
    IN  IF ~unsealed.ok THEN Thrown(unsealed.error, "keys", <<>>)
        ELSE DecryptLayers(encryptedData, metadata.layers, unsealed.keys,
                           VisitOrder(Len(metadata.layers)), <<>>)

(***************************************************************************)
(* The MultiLayerDecryptor component (src/components/file-upload.tsx).     *)
(* Its AES-CBC attempts and its direct JSON.parse of the ciphertext are    *)
(* left out: on an AES-GCM ciphertext they end in bad padding or in bytes  *)
(* that are no JSON array, and the code then goes on to the next attempt.  *)
(***************************************************************************)

\* One subtle.decrypt attempt: key bytes, IV, and whether the last 16 bytes
\* of the data are cut off first
RunAttempt(a, data) ==
    AesGcmDecrypt(a.key, a.iv, IF a.cut THEN WithoutTag(data) ELSE data)

RECURSIVE FirstFit(_, _)
\* The outcome of the first attempt that does not reject
FirstFit(attempts, data) ==
    IF attempts = <<>> THEN [ok |-> FALSE, data |-> data]
    ELSE IF RunAttempt(Head(attempts), data).ok THEN RunAttempt(Head(attempts), data)
    ELSE FirstFit(Tail(attempts), data)

\* adjustedBuffer: the key bytes cut or zero-padded to keyLength bits
AdjustedKey(keyBuffer, keyLength) ==
    ZeroPadded(Slice(keyBuffer, keyLength \div 8), keyLength \div 8)

\* gcmIv: an IV that is not 12 bytes long is cut or zero-padded to 12
GcmIv(iv) == IF Len(iv) # 12 THEN ZeroPadded(Slice(iv, 12), 12) ELSE iv

\* One approach of the component's decryptLayerKeys: with the tag, then
\* (after a rejection) on the data without its last 16 bytes
UnsealAttempts(primaryKey, keyLength, iv) ==
    LET keyBuffer == IF IsHexOfLength(primaryKey, 64) THEN HexToBytes(primaryKey)
                     ELSE Sha256(TextEncode(primaryKey))
    IN  <<[key |-> AdjustedKey(keyBuffer, keyLength), iv |-> GcmIv(iv), cut |-> FALSE],
          [key |-> AdjustedKey(keyBuffer, keyLength), iv |-> iv, cut |-> TRUE]>>

\* The component's decryptLayerKeys
componentDecryptLayerKeys(sealed, primaryKey) ==
    IF sealed.ivBase64 = <<>> \/ ~base64ToBuffer(sealed.ivBase64).ok
    THEN [ok |-> FALSE, keys |-> <<>>]
    ELSE LET iv   == base64ToBuffer(sealed.ivBase64).bytes
             a256 == FirstFit(UnsealAttempts(primaryKey, 256, iv), sealed.ct)
             a128 == FirstFit(UnsealAttempts(primaryKey, 128, iv), sealed.ct)
         IN  IF a256.ok /\ JsonParse(TextDecode(a256.data.plain)).ok
             THEN [ok |-> TRUE, keys |-> JsonParse(TextDecode(a256.data.plain)).value]
             ELSE IF a128.ok /\ JsonParse(TextDecode(a128.data.plain)).ok
             THEN [ok |-> TRUE, keys |-> JsonParse(TextDecode(a128.data.plain)).value]
             ELSE [ok |-> FALSE, keys |-> <<>>]

\* metadata.layers made as long as layerKeys: default layers are added, excess
\* layers are dropped
AdjustLayers(layers, n) ==
    [i \in 1..n |-> IF i <= Len(layers) THEN layers[i]
                    ELSE [algorithm |-> "AES-GCM", ivBase64 |-> <<>>, layerIndex |-> i - 1]]

\* new Uint8Array(hashBuffer).slice(0, 12) of the adjusted key
DeterministicIv(adjustedBuffer) == Slice(Sha256(adjustedBuffer), 12)

\* Strategy 1: the attempts made with the first layer key
DirectAttempts(layerKeys) ==
    LET keyBuffer == HexToBytes(layerKeys[1])
        try(keyLength) ==
            <<[key |-> AdjustedKey(keyBuffer, keyLength),
               iv |-> DeterministicIv(AdjustedKey(keyBuffer, keyLength)), cut |-> FALSE],
              [key |-> AdjustedKey(keyBuffer, keyLength),
               iv |-> DeterministicIv(AdjustedKey(keyBuffer, keyLength)), cut |-> TRUE]>>
    IN  try(128) \o try(256)

\* Strategy 2: the attempts made on one layer, in the order of the code
LayerAttempts(layer, layerKey) ==
    LET keyBuffer == HexToBytes(layerKey)
        try(keyLength) ==
            (IF layer.ivBase64 # <<>> /\ base64ToBuffer(layer.ivBase64).ok
             THEN <<[key |-> AdjustedKey(keyBuffer, keyLength),
                     iv |-> base64ToBuffer(layer.ivBase64).bytes, cut |-> FALSE]>>
             ELSE <<>>)
            \o
            <<[key |-> AdjustedKey(keyBuffer, keyLength),
               iv |-> DeterministicIv(AdjustedKey(keyBuffer, keyLength)), cut |-> FALSE],
              [key |-> AdjustedKey(keyBuffer, keyLength),
               iv |-> DeterministicIv(AdjustedKey(keyBuffer, keyLength)), cut |-> TRUE]>>
    IN  try(128) \o try(256)

RECURSIVE ForwardLayers(_, _, _, _)
\* Strategy 2: the loop over the layers in forward order, from layer i on (i
\* counts from 1 here).  A layer that no attempt decrypts is logged and skipped.
ForwardLayers(currentData, layers, layerKeys, i) ==
    IF i > Len(layers) THEN currentData
    ELSE ForwardLayers(FirstFit(LayerAttempts(layers[i], layerKeys[i]), currentData).data,
                       layers, layerKeys, i + 1)

\* The component's multiLayerDecrypt.  Strategy 2 ends in "return currentData"
\* whenever every layer key is a non-empty string, which the keys of a sealed
\* list from multiLayerEncrypt are; so no later strategy is entered.
componentMultiLayerDecrypt(encryptedData, metadata, primaryKey) ==
    LET unsealed == componentDecryptLayerKeys(metadata.encryptedLayerKeys, primaryKey)
        layers   == AdjustLayers(metadata.layers, Len(unsealed.keys))
    IN  IF ~unsealed.ok THEN [kind |-> "Error", stage |-> "keys", data |-> NoData]
        ELSE IF unsealed.keys # <<>> /\ FirstFit(DirectAttempts(unsealed.keys), encryptedData).ok
        THEN [kind |-> "returned", stage |-> "Strategy 1",
              data |-> FirstFit(DirectAttempts(unsealed.keys), encryptedData).data]
        ELSE [kind |-> "returned", stage |-> "Strategy 2",
              data |-> ForwardLayers(encryptedData, layers, unsealed.keys, 1)]

(***************************************************************************)
(* The key file: written by the upload flow, read by the decryptors        *)
(***************************************************************************)

\* "IMPORTANT: KEEP THIS FILE SECURE\nThis file contains the encryption key for: "
KeyFileHead ==
    <<73, 77, 80, 79, 82, 84, 65, 78, 84, 58, 32, 75, 69, 69, 80, 32, 84, 72,
    73, 83, 32, 70, 73, 76, 69, 32, 83, 69, 67, 85, 82, 69, 10, 84, 104,
    105, 115, 32, 102, 105, 108, 101, 32, 99, 111, 110, 116, 97, 105, 110,
    115, 32, 116, 104, 101, 32, 101, 110, 99, 114, 121, 112, 116, 105, 111,
    110, 32, 107, 101, 121, 32, 102, 111, 114, 58, 32>>

\* "\nEncrypted on: "
KeyFileDateLabel ==
    <<10, 69, 110, 99, 114, 121, 112, 116, 101, 100, 32, 111, 110, 58, 32>>

\* "\n\nENCRYPTION KEY:\n"
KeyFileKeyLabel ==
    <<10, 10, 69, 78, 67, 82, 89, 80, 84, 73, 79, 78, 32, 75, 69, 89, 58, 10>>

\* "\n\nDECRYPTION INSTRUCTIONS:\n1. You will need ..." to the end of the text
KeyFileFoot ==
    <<10, 10, 68, 69, 67, 82, 89, 80, 84, 73, 79, 78, 32, 73, 78, 83, 84, 82,
    85, 67, 84, 73, 79, 78, 83, 58, 10, 49, 46, 32, 89, 111, 117, 32, 119,
    105, 108, 108, 32, 110, 101, 101, 100, 32, 116, 104, 105, 115, 32, 101,
    120, 97, 99, 116, 32, 107, 101, 121, 32, 116, 111, 32, 100, 101, 99,
    114, 121, 112, 116, 32, 121, 111, 117, 114, 32, 102, 105, 108, 101, 10,
    50, 46, 32, 83, 116, 111, 114, 101, 32, 116, 104, 105, 115, 32, 102,
    105, 108, 101, 32, 105, 110, 32, 97, 32, 115, 101, 99, 117, 114, 101,
    32, 108, 111, 99, 97, 116, 105, 111, 110, 10, 51, 46, 32, 68, 111, 32,
    110, 111, 116, 32, 115, 104, 97, 114, 101, 32, 116, 104, 105, 115, 32,
    107, 101, 121, 32, 119, 105, 116, 104, 32, 97, 110, 121, 111, 110, 101,
    10, 52, 46, 32, 73, 102, 32, 121, 111, 117, 32, 108, 111, 115, 101, 32,
    116, 104, 105, 115, 32, 107, 101, 121, 44, 32, 121, 111, 117, 114, 32,
    102, 105, 108, 101, 32, 99, 97, 110, 110, 111, 116, 32, 98, 101, 32,
    114, 101, 99, 111, 118, 101, 114, 101, 100>>

\* keyFileContent of handleUpload
KeyFileContent(fileName, date, encryptionKey) ==
    KeyFileHead \o fileName \o KeyFileDateLabel \o date \o KeyFileKeyLabel
    \o encryptionKey \o KeyFileFoot

\* c.toLowerCase() of one character: the /i flag of the readers' patterns
LowerCase(c) == IF c >= 65 /\ c <= 90 THEN c + 32 ELSE c

\* "encryption key:", what the patterns begin with
KeyPatternLabel ==
    <<101, 110, 99, 114, 121, 112, 116, 105, 111, 110, 32, 107, 101, 121, 58>>

\* The label stands at position i of the content, in either case
LabelAt(content, i) ==
    /\ i + Len(KeyPatternLabel) - 1 <= Len(content)
    /\ \A k \in 1..Len(KeyPatternLabel) : LowerCase(content[i + k - 1]) = KeyPatternLabel[k]

\* \s of a pattern, for ASCII
IsSpace(c) == c \in {9, 10, 11, 12, 13, 32}

\* \s* from position p: the first position from p on that holds no white space
AfterSpace(content, p) ==
    CHOOSE q \in p..(Len(content) + 1) :
        /\ \A r \in p..(q - 1) : IsSpace(content[r])
        /\ q = Len(content) + 1 \/ ~IsSpace(content[q])

\* [0-9a-f]{..., most} with /i from position q: how many characters it takes
HexRun(content, q, most) ==
    CHOOSE h \in 0..most :
        /\ \A r \in 0..(h - 1) : q + r <= Len(content) /\ HexDigitValue(content[q + r]) >= 0
        /\ h = most \/ q + h > Len(content) \/ HexDigitValue(content[q + h]) < 0

\* content.match(/ENCRYPTION KEY:\s*([0-9a-f]{least,most})/i): whether it
\* matches and, from the leftmost match, keyMatch[1].trim()
MatchKey(content, least, most) ==
    LET from(i) == AfterSpace(content, i + Len(KeyPatternLabel))
        starts  == {i \in 1..Len(content) :
                       LabelAt(content, i) /\ HexRun(content, from(i), most) >= least}
        first   == CHOOSE i \in starts : \A j \in starts : i <= j
    IN  IF starts = {} THEN [found |-> FALSE, key |-> <<>>]
        ELSE [found |-> TRUE,
              key |-> SubSeq(content, from(first),
                             from(first) + HexRun(content, from(first), most) - 1)]

\* The four readers and the bounds of the hex run in their patterns
KeyFileReaders ==
    {[name |-> "FileDecryptor", least |-> 32, most |-> 32],
     [name |-> "FileDownload", least |-> 64, most |-> 64],
     [name |-> "MultiLayerDecryptor", least |-> 64, most |-> 64],
     [name |-> "AdvancedFileDecryptor", least |-> 32, most |-> 64]}

(***************************************************************************)
(* The AdvancedFileDecryptor's brute force (src/unnamed/part_004).  The     *)
(* file content is a ciphertext that remembers the algorithm, key bytes    *)
(* and IV it was made with, the number of its 16-byte blocks, and whether  *)
(* its bytes happen to end in valid padding when AES-CBC decrypts them      *)
(* under a key they were not made with.                                    *)
(***************************************************************************)

ALGORITHMS == <<"AES-GCM", "AES-CBC", "AES-CTR">>

\* The key lengths with the longer one first
KEY_LENGTHS_Descending == <<256, 128>>

KEY_LENGTHS == <<128, 256>>

\* The IV of simplifiedDecrypt: the decoded ivBase64 if one is given (ok is
\* FALSE where base64ToBuffer throws), else the leading bytes of the SHA-256
\* of the password, 12 for AES-GCM and 16 for AES-CBC and AES-CTR
AttemptIv(password, ivBase64, algorithm) ==
    IF ivBase64 # <<>> THEN base64ToBuffer(ivBase64)
    ELSE [ok |-> TRUE,
          bytes |-> Slice(Sha256(TextEncode(password)),
                          IF algorithm = "AES-GCM" THEN 12 ELSE 16)]

\* The key bytes of simplifiedDecrypt: a hex string of 32 or 64 digits is
\* parsed, anything else is hashed; then cut to the target length
AttemptKeyData(password, keyLength) ==
    LET keyData == IF IsHexOfLength(password, 32) \/ IsHexOfLength(password, 64)
                   THEN HexToBytes(password)
                   ELSE Sha256(TextEncode(password))
    IN  Slice(keyData, IF keyLength = 128 THEN 16 ELSE 32)

\* subtle.decrypt of simplifiedDecrypt, its retries on the data without 16
\* bytes included (AES-GCM rejects those: the tag does not verify).  AES-CBC
\* and AES-CTR demand 16 bytes of IV or counter; AES-CBC accepts what ends in
\* valid padding, which is decided by the key and the last two blocks;
\* AES-CTR accepts every ciphertext
SubtleDecryptOk(algorithm, keyData, iv, encryptedData) ==
    IF algorithm = "AES-GCM"
    THEN /\ iv # <<>>
         /\ encryptedData.algorithm = "AES-GCM"
         /\ encryptedData.key = keyData
         /\ encryptedData.iv = iv
    ELSE IF algorithm = "AES-CBC"
    THEN /\ Len(iv) = 16
         /\ \/ /\ encryptedData.algorithm = "AES-CBC"
               /\ encryptedData.key = keyData
               /\ (encryptedData.iv = iv \/ encryptedData.blocks > 1)
            \/ encryptedData.padded
    ELSE Len(iv) = 16

\* simplifiedDecrypt: TRUE where it returns a buffer, FALSE where it throws
simplifiedDecrypt(encryptedData, password, ivBase64, algorithm, keyLength) ==
    LET iv == AttemptIv(password, ivBase64, algorithm)
        keyData == AttemptKeyData(password, keyLength)
    IN  /\ iv.ok
        /\ ImportKeyOk(keyData)
        /\ SubtleDecryptOk(algorithm, keyData, iv.bytes, encryptedData)

(***************************************************************************)
(* The FileUpload component (src/components/file-upload.tsx) and the saved *)
(* encryption key (src/lib/settings.ts).  localStorage is a record: the    *)
(* persisted setting encryption.rememberPassword, the saved key, and the   *)
(* encryption metadata saved under an IPFS hash.                           *)
(***************************************************************************)

MAX_FILE_SIZE == 5242880

NoSavedKey == [present |-> FALSE, key |-> <<>>]

NoSavedMetadata == [present |-> FALSE, ipfsHash |-> "", metadata |-> NoMetadata]

\* saveEncryptionKey: loadSettings() is read, and the key is written only if
\* its encryption.rememberPassword is set
saveEncryptionKey(stored, key) ==
    IF stored.rememberPassword
    THEN [stored EXCEPT !.encryptionKey = [present |-> TRUE, key |-> key]]
    ELSE stored

\* clearEncryptionKey
clearEncryptionKey(stored) == [stored EXCEPT !.encryptionKey = NoSavedKey]

(***************************************************************************)
(* Security settings and their presets (src/lib/audit.ts).  A settings     *)
(* object is a record; a Partial<SecuritySettings> is a record with some   *)
(* of the fields.  The stored JSON text is kept as the object it parses to *)
(* (booleans, numbers, strings and an empty array only).                   *)
(***************************************************************************)

DEFAULT_SECURITY_SETTINGS ==
    [encryptionStrength |-> "AES-128",
     multiLayerEncryption |-> FALSE,
     keyRotationEnabled |-> FALSE,
     keyRotationPeriod |-> 90,
     accessControl |-> [enabled |-> TRUE, defaultPolicy |-> "private",
                        ipRestriction |-> FALSE, allowedIPs |-> <<>>,
                        timeLimitedAccess |-> FALSE],
     integrityVerification |-> [automaticChecks |-> TRUE, checkInterval |-> 24,
                                merkleProofVerification |-> FALSE],
     secureKeyStorage |-> [splitKey |-> FALSE, thresholdShares |-> 2, totalShares |-> 3]]

\* { ...a, ...b }: the fields of b over those of a
Spread(a, b) ==
    [f \in DOMAIN a \cup DOMAIN b |-> IF f \in DOMAIN b THEN b[f] ELSE a[f]]

\* {}
EmptyObject == [f \in {} |-> FALSE]

SECURITY_LEVEL_SETTINGS ==
    [standard |-> EmptyObject,
     high |->
        [multiLayerEncryption |-> TRUE,
         keyRotationEnabled |-> TRUE,
         keyRotationPeriod |-> 60,
         accessControl |->
            Spread(DEFAULT_SECURITY_SETTINGS.accessControl, [ipRestriction |-> TRUE]),
         integrityVerification |->
            Spread(DEFAULT_SECURITY_SETTINGS.integrityVerification, [checkInterval |-> 12])],
     maximum |->
        [multiLayerEncryption |-> TRUE,
         keyRotationEnabled |-> TRUE,
         keyRotationPeriod |-> 30,
         accessControl |->
            Spread(DEFAULT_SECURITY_SETTINGS.accessControl,
                   [ipRestriction |-> TRUE, timeLimitedAccess |-> TRUE]),
         integrityVerification |->
            Spread(DEFAULT_SECURITY_SETTINGS.integrityVerification,
                   [checkInterval |-> 6, merkleProofVerification |-> TRUE]),
         secureKeyStorage |->
            [splitKey |-> TRUE, thresholdShares |-> 3, totalShares |-> 5]]]

\* partial.field || {}
FieldOrEmpty(partial, field) ==
    IF field \in DOMAIN partial THEN partial[field] ELSE EmptyObject

\* The merge loadSecuritySettings and applySecurityLevel both make: the
\* top-level fields of the partial over the base, and each of the three
\* nested objects merged field by field
MergeSettings(base, partial) ==
    [Spread(base, partial) EXCEPT
        !.accessControl =
            Spread(base.accessControl, FieldOrEmpty(partial, "accessControl")),
        !.integrityVerification =
            Spread(base.integrityVerification,
                   FieldOrEmpty(partial, "integrityVerification")),
        !.secureKeyStorage =
            Spread(base.secureKeyStorage, FieldOrEmpty(partial, "secureKeyStorage"))]

\* loadSecuritySettings on what is stored under "security-settings"
loadSecuritySettings(stored) ==
    IF ~stored.present THEN DEFAULT_SECURITY_SETTINGS
    ELSE MergeSettings(DEFAULT_SECURITY_SETTINGS, stored.settings)

\* The settings applySecurityLevel builds, saves and returns
applySecurityLevel(stored, level) ==
    MergeSettings(loadSecuritySettings(stored), SECURITY_LEVEL_SETTINGS[level])

(***************************************************************************)
(* storeFile (src/lib/blockchain.ts).  An error is its message, as the     *)
(* sequence of its words, and its code; a file is the lengths of its name  *)
(* and type with its size.                                                 *)
(***************************************************************************)

\* message.includes(phrase), for a phrase of whole words
Includes(message, phrase) ==
    \E i \in 1..(Len(message) - Len(phrase) + 1) :
        SubSeq(message, i, i + Len(phrase) - 1) = phrase

\* file.name.length > 100 ? file.name.substring(0, 100) : file.name, and the
\* same for file.type with 50, on the lengths
Truncated(length, most) == IF length > most THEN most ELSE length

\* The error the catch block of storeFile throws for the error it caught
Rethrown(error) ==
    IF Includes(error.message, <<"Pinata">>)
    THEN <<"IPFS", "upload", "failed:">> \o error.message
    ELSE IF Includes(error.message, <<"wallet">>)
    THEN <<"Wallet", "connection", "error.">>
    ELSE IF error.code = 4001
    THEN <<"Transaction", "rejected", "by", "user.">>
    ELSE IF Includes(error.message, <<"transaction", "failed">>)
            \/ Includes(error.message, <<"execution", "reverted">>)
    THEN <<"Transaction", "failed:", "The", "smart", "contract", "rejected", "the",
           "operation.">>
    ELSE <<"Blockchain", "storage", "failed:">> \o error.message

(***************************************************************************)
(* The inputs and the idle states                                          *)
(***************************************************************************)

\* ---- the inputs of the Merkle model ----
MaxChunks == 7

\* Chunk bytes: 'A', 'q', 'r'
MerkleBytes == {65, 113, 114}

ChunkSet == {<<b>> : b \in MerkleBytes}

NoMerkle == [done |-> FALSE, root |-> <<>>, proofs |-> <<>>]

NoVerif == [called |-> FALSE, changed |-> FALSE, index |-> 0, chunk |-> <<>>,
            result |-> FALSE]

\* Arguments of any origin for verifyMerkleProof: the empty chunk and chunks
\* of one and two bytes; proofs of up to MaxProofLen siblings, a sibling being
\* the empty string, the leaf hash "33" or the string "zz"; as root the empty
\* string, the string "G" and every hash such a chunk and proof fold to
MaxProofLen == 2

ProbeChunks == {<<>>, <<65>>, <<113, 114>>}

ProbeSiblings == {<<>>, LeafHash(<<113>>), <<122, 122>>}

ProbeProofs == UNION {[1..n -> ProbeSiblings] : n \in 0..MaxProofLen}

ProbeRoots ==
    {<<>>, <<71>>} \cup {FoldProof(LeafHash(c), p) : c \in ProbeChunks, p \in ProbeProofs}

NoProbe == [called |-> FALSE, chunk |-> <<>>, proof |-> <<>>, root |-> <<>>,
            result |-> FALSE]

\* The Merkle engine before any call
MerkleIdle ==
    /\ chunks = <<>>
    /\ merkle = NoMerkle
    /\ verif = NoVerif
    /\ probe = NoProbe

\* ---- the inputs of the Shamir model ----
MaxSecretLen == 2

\* Characters of a secret: NUL, 'a'
SecretChars == {0, 97}

SecretSet == UNION {[1..n -> SecretChars] : n \in 0..MaxSecretLen}

\* The random 32-bit coefficients are drawn from 0..MaxCoef
MaxCoef == 1

\* (numShares, threshold) of the presets: the default 3 and 2, "maximum" 5 and 3
SplitConfigs == {<<3, 2>>, <<5, 3>>}

NoShares == <<>>

NoCombined == [called |-> FALSE, input |-> <<>>, threshold |-> 0,
               kind |-> "none", parsed |-> 0, value |-> <<>>]

\* The splitter before any call
ShamirIdle ==
    /\ secret = [text |-> <<>>, numShares |-> 0, threshold |-> 0]
    /\ shares = NoShares
    /\ combined = NoCombined

\* ---- the inputs of the file codec model ----

\* The 16 key bytes and the 12 IV bytes that getRandomValues draws, by seed
Key16(seed) == [i \in 1..16 |-> (seed * 17 + i * 29) % 256]

Iv12(seed) == [i \in 1..12 |-> (seed * 31 + i * 7) % 256]

\* s.toUpperCase() of a hex string
UpperCase(s) == [i \in 1..Len(s) |-> IF s[i] >= 97 /\ s[i] <= 122 THEN s[i] - 32 ELSE s[i]]

\* Key strings a caller hands in: two 128-bit hex keys, the first one typed in
\* capitals, a 256-bit hex key, a passphrase ("pw") and the empty string
KeyStrings ==
    {HexJoin(Key16(1)), HexJoin(Key16(2)), UpperCase(HexJoin(Key16(1))),
     HexJoin(Key16(3) \o Key16(4)), <<112, 119>>, <<>>}

IvSet == {Iv12(1), Iv12(2)}

\* Files, as name pieces, type, size and content: small ones with all their
\* bytes, one without name and type, and two large ones of which content
\* keeps the leading bytes only, at the size limit and one byte above it
FileSet ==
    {[name |-> <<"report", ".pdf">>, type |-> "application/pdf", size |-> Len(c),
      content |-> PlainBuffer(c)] : c \in {<<>>, <<0>>, <<255, 0>>}}
    \cup
    {[name |-> <<>>, type |-> "", size |-> 2, content |-> PlainBuffer(<<72, 105>>)]}
    \cup
    {[name |-> <<"notes", ".txt">>, type |-> "", size |-> n,
      content |-> PlainBuffer(<<37, 80>>)] : n \in {MAX_ENCRYPTION_SIZE, MAX_ENCRYPTION_SIZE + 1}}

NoEncrypted == [called |-> FALSE, result |-> Failed(""), steps |-> <<>>]

NoDecrypted == [called |-> FALSE, key |-> <<>>, iv |-> <<>>, damaged |-> FALSE,
                result |-> Failed("")]

NoDownload == [called |-> FALSE, key |-> <<>>, fetched |-> FALSE, error |-> "",
               reached |-> FALSE, saved |-> FALSE, file |-> NoFile]

\* The file codec before any call
FileIdle ==
    /\ file = NoFile
    /\ encKey = <<>>
    /\ encrypted = NoEncrypted
    /\ decrypted = NoDecrypted
    /\ download = NoDownload

\* ---- the inputs of the onion model ----

\* Buffers handed to multiLayerEncrypt: an empty one and "Hi"
DataSet == {PlainBuffer(<<>>), PlainBuffer(<<72, 105>>)}

\* Primary keys: two 128-bit hex keys, a 256-bit hex key, the passphrase "pw"
\* and the empty string
PrimaryKeys ==
    {HexJoin(Key16(1)), HexJoin(Key16(2)), HexJoin(Key16(3) \o Key16(4)), <<112, 119>>, <<>>}

\* What getRandomValues hands to one multiLayerEncrypt call: the key bytes of
\* the layers, the IVs of the layers and the IV for the layer keys.  Values
\* drawn in one call differ from each other: 128-bit keys and 96-bit IVs
\* drawn at random do not repeat.
RandomDraws ==
    {[keys |-> k, ivs |-> v, sealIv |-> w] :
        k \in {[i \in 1..LAYERS |-> Key16(4 + i)], [i \in 1..LAYERS |-> Key16(12 - i)]},
        v \in {[i \in 1..LAYERS |-> Iv12(i)], [i \in 1..LAYERS |-> Iv12(10 - i)]},
        w \in {Iv12(11), Iv12(12)}}

NoOnion ==
    [called |-> FALSE, encryptedData |-> NoData, layerKeys |-> <<>>,
     metadata |-> [version |-> "", layers |-> <<>>,
                   encryptedLayerKeys |-> [ct |-> NoData, ivBase64 |-> <<>>]]]

NoCall ==
    [called |-> FALSE, primaryKey |-> <<>>, change |-> 0, damaged |-> FALSE,
     sealDamaged |-> FALSE, metadata |-> NoOnion.metadata]

NoLibOut == [call |-> NoCall, kind |-> "none", stage |-> "none", data |-> NoData, trace |-> <<>>]

NoCmpOut == [call |-> NoCall, kind |-> "none", stage |-> "none", data |-> NoData]

\* The onion codec before any call
OnionIdle ==
    /\ request = [data |-> NoData, primaryKey |-> <<>>]
    /\ onion = NoOnion
    /\ libOut = NoLibOut
    /\ cmpOut = NoCmpOut

\* ---- the inputs of the key file model ----

\* Names of uploaded files: "a.txt", "report.pdf", "cafe"
UploadNames == {<<97, 46, 116, 120, 116>>,
                <<114, 101, 112, 111, 114, 116, 46, 112, 100, 102>>,
                <<99, 97, 102, 101>>}

\* new Date().toLocaleString(): "11/4/2026, 1:30:00 PM"
UploadDate == <<49, 49, 47, 52, 47, 50, 48, 50, 54, 44, 32, 49, 58, 51, 48, 58, 48, 48, 32, 80, 77>>

\* Keys in the key field at upload: hex keys of 32 (also in capitals), 40, 63
\* and 64 digits, one of 31 digits, and the passphrase "pw"
UploadKeys ==
    {HexJoin(Key16(1)), UpperCase(HexJoin(Key16(1))), HexJoin(Key16(2)),
     HexJoin(Key16(1) \o SubSeq(Key16(2), 1, 4)),
     SubSeq(HexJoin(Key16(3) \o Key16(4)), 1, 63),
     HexJoin(Key16(3) \o Key16(4)),
     SubSeq(HexJoin(Key16(2)), 1, 31),
     <<112, 119>>}

NoKeyRead == [called |-> FALSE, reader |-> "", found |-> FALSE, key |-> <<>>]

\* The key file model before any call
KeyFileIdle ==
    /\ keyFile = [written |-> FALSE, fileName |-> <<>>, key |-> <<>>, content |-> <<>>]
    /\ keyRead = NoKeyRead

\* ---- the inputs of the brute force model ----

\* Keys typed into the decryptor: hex of 32 and of 64 digits and a passphrase
BruteKeys == {HexJoin(Key16(1)), HexJoin(Key16(3) \o Key16(4)), <<112, 119>>}

\* IV strings: none, a 12-byte IV, a 16-byte IV, and a string that is no base64
BruteIvs == {<<>>, Btoa(Iv12(1)), Btoa(Key16(5)), <<33>>}

\* Files for a key and IV string: made with one of the three algorithms, with
\* the key bytes the decryptor derives for 128 or 256 bits or with other key
\* bytes, with the given IV, the derived IV or another one; of one or two
\* blocks; ending in valid padding under other keys or not
BruteContents(password, ivBase64) ==
    UNION {{[algorithm |-> a, key |-> k, iv |-> v, blocks |-> b, padded |-> p] :
               k \in {AttemptKeyData(password, 128), AttemptKeyData(password, 256), Key16(9)},
               v \in {AttemptIv(password, ivBase64, a).bytes,
                      AttemptIv(password, <<>>, a).bytes},
               b \in {1, 2},
               p \in BOOLEAN} : a \in {"AES-GCM", "AES-CBC", "AES-CTR"}}

NoContent == [algorithm |-> "", key |-> <<>>, iv |-> <<>>, blocks |-> 0, padded |-> FALSE]

NoBrute == [pc |-> "idle", fileContent |-> NoContent, encryptionKey |-> <<>>, iv |-> <<>>,
            currentCombination |-> 0, decryptionProgress |-> 0, reported |-> <<>>,
            attempts |-> <<>>, outcome |-> ""]

\* The brute force decryptor before any call
BruteIdle == brute = NoBrute

\* ---- the inputs of the upload model ----

\* Files selected for upload: a small one, one of exactly 5 MB and one a byte
\* larger (content keeps the leading bytes only)
UploadFiles ==
    {[name |-> <<"notes", ".txt">>, type |-> "text/plain", size |-> n,
      content |-> PlainBuffer(<<37, 80>>)] : n \in {2, MAX_FILE_SIZE, MAX_FILE_SIZE + 1}}

\* Keys in the key field: none, a generated one, a 64-digit one, a passphrase
EnteredKeys == {<<>>, HexJoin(Key16(1)), HexJoin(Key16(3) \o Key16(4)), <<112, 119>>}

\* What generateEncryptionKey returns when handleUpload calls it
GeneratedKeys == {HexJoin(Key16(2))}

\* The IPFS hashes storeFile resolves with
IpfsHashes == {"QmA"}

NoUpload == [pc |-> "idle", file |-> NoFile, useEncryption |-> FALSE,
             encryptionKey |-> <<>>, rememberKey |-> FALSE, closureKey |-> <<>>,
             uploading |-> FALSE, status |-> "idle",
             keyFile |-> [written |-> FALSE, key |-> <<>>],
             encryptCall |-> [called |-> FALSE, key |-> <<>>, promise |-> Failed("")],
             metadata |-> NoMetadata,
             storeCall |-> [called |-> FALSE, resolved |-> FALSE],
             ipfsHash |-> ""]

NoStorage == [rememberPassword |-> FALSE, encryptionKey |-> NoSavedKey,
              metadata |-> NoSavedMetadata]

\* The FileUpload component before it is mounted
UploadIdle ==
    /\ upload = NoUpload
    /\ storage = NoStorage

\* ---- the inputs of the security settings model ----

\* The presets, and how many are applied one after the other
SecurityLevels == {"standard", "high", "maximum"}

MaxApplied == 4

\* Nothing stored, nothing applied; logged counts the "Security settings
\* updated" events saveSecuritySettings has handed to logAuditEvent
NoSecurity == [stored |-> [present |-> FALSE, settings |-> DEFAULT_SECURITY_SETTINGS],
               returned |-> DEFAULT_SECURITY_SETTINGS,
               applied |-> <<>>,
               logged |-> 0]

SecurityIdle == security = NoSecurity

\* ---- the inputs of the audit log model ----

\* Callers of logAuditEvent that can be under way at the same time, and how
\* many events are logged in all
MaxCallers == 3

MaxEvents == 4

Callers == 1..MaxCallers

\* The event types the callers met here log: storeFile and saveSecuritySettings
AuditEventTypes == {"upload", "access"}

NoAuditEvent == [id |-> 0, type |-> ""]

NoAuditCall == [pc |-> "idle", completeEvent |-> NoAuditEvent, existingEvents |-> <<>>]

\* Nothing stored under "blockchain-audit-events" and no call under way;
\* resolved lists the ids of the events whose call resolved since the last
\* clearAuditEvents, in the order they resolved
NoAudit == [stored |-> <<>>, calls |-> [p \in Callers |-> NoAuditCall],
            issued |-> 0, resolved |-> <<>>]

AuditIdle == audit = NoAudit

\* ---- the inputs of the storeFile model ----

\* Files handed to storeFile: name and type short, and longer than the 100
\* and 50 characters storeFile cuts them to
StoreFiles ==
    {[nameLength |-> n, typeLength |-> t, size |-> 18] : n \in {9, 120}, t \in {10, 60}}

NoError == [message |-> <<>>, code |-> 0]

\* What uploadToPinata rejects with
PinataErrors ==
    {[message |-> <<"Error", "uploading", "to", "Pinata">>, code |-> 0],
     [message |-> <<"Failed", "to", "fetch">>, code |-> 0]}

\* What getContract rejects with
ContractErrors ==
    {[message |-> <<"Failed", "to", "connect", "to", "blockchain.", "Please", "make",
                    "sure", "your", "wallet", "is", "connected">>, code |-> 0]}

\* What contract.addFile rejects with
AddFileErrors ==
    {[message |-> <<"User", "denied", "transaction", "signature">>, code |-> 4001],
     [message |-> <<"execution", "reverted">>, code |-> 0],
     [message |-> <<"insufficient", "funds">>, code |-> 0]}

\* What tx.wait() rejects with
WaitErrors == {[message |-> <<"transaction", "failed">>, code |-> 0]}

\* What logAuditEvent rejects with when localStorage.setItem throws
QuotaExceeded == [message |-> <<"QuotaExceededError">>, code |-> 22]

\* The file ids storeFile finds: none (0) or the one of the FileAdded event
FileIds == {0, 7}

NoStore == [pc |-> "idle", file |-> [nameLength |-> 0, typeLength |-> 0, size |-> 0],
            steps |-> <<>>, ipfsHash |-> "", sent |-> [nameLength |-> 0, typeLength |-> 0],
            receiptStatus |-> -1, fileId |-> 0, error |-> NoError,
            events |-> <<>>, outcome |-> "pending", thrown |-> <<>>]

StoreIdle == store = NoStore

(***************************************************************************)
(* The Merkle engine as a state machine                                    *)
(***************************************************************************)

InitMerkle ==
    /\ chunks \in UNION {[1..n -> ChunkSet] : n \in 1..MaxChunks}
    /\ merkle = NoMerkle
    /\ verif = NoVerif
    /\ probe = NoProbe
    /\ ShamirIdle
    /\ FileIdle
    /\ OnionIdle
    /\ KeyFileIdle
    /\ BruteIdle
    /\ UploadIdle
    /\ SecurityIdle
    /\ AuditIdle
    /\ StoreIdle

GenerateMerkleTree ==
    /\ ~merkle.done
    /\ merkle' = generateMerkleTree(chunks)
    /\ UNCHANGED <<chunks, verif, probe>>
    /\ UNCHANGED <<shamirVars, fileVars, onionVars, keyFileVars, bruteVars, uploadVars, securityVars,
                 auditVars, storeVars>>

\* verifyMerkleProof(chunks[i], proofs[i], root)
VerifyChunk(i) ==
    /\ merkle.done
    /\ ~verif.called
    /\ verif' = [called |-> TRUE, changed |-> FALSE, index |-> i, chunk |-> chunks[i],
                 result |-> verifyMerkleProof(chunks[i], merkle.proofs[i], merkle.root)]
    /\ UNCHANGED <<chunks, merkle, probe>>
    /\ UNCHANGED <<shamirVars, fileVars, onionVars, keyFileVars, bruteVars, uploadVars, securityVars,
                 auditVars, storeVars>>

\* verifyMerkleProof on chunks[i] with the byte at position p replaced by b
VerifyChangedChunk(i, p, b) ==
    /\ merkle.done
    /\ ~verif.called
    /\ chunks[i][p] # b
    /\ LET changed == [chunks[i] EXCEPT ![p] = b]
       IN  verif' = [called |-> TRUE, changed |-> TRUE, index |-> i, chunk |-> changed,
                     result |-> verifyMerkleProof(changed, merkle.proofs[i], merkle.root)]
    /\ UNCHANGED <<chunks, merkle, probe>>
    /\ UNCHANGED <<shamirVars, fileVars, onionVars, keyFileVars, bruteVars, uploadVars, securityVars,
                 auditVars, storeVars>>

NextMerkle ==
    \/ GenerateMerkleTree
    \/ \E i \in 1..Len(chunks) : VerifyChunk(i)
    \/ \E i \in 1..Len(chunks) : \E p \in 1..Len(chunks[i]) : \E b \in MerkleBytes :
          VerifyChangedChunk(i, p, b)

SpecMerkle == InitMerkle /\ [][NextMerkle]_vars

\* C1: every chunk verifies against its own proof and the root of its tree
C1_EveryProofVerifies == (verif.called /\ ~verif.changed) => verif.result

\* C2: a chunk changed in exactly one byte never verifies against the proof
\* and root of the original list
C2_ChangedChunkRejected == (verif.called /\ verif.changed) => ~verif.result

\* C15: for every non-empty chunk list generateMerkleTree returns as many
\* proofs as chunks, and the root is the one node of the top level of the tree;
\* for a single chunk the root is the leaf hash of the chunk and the proof of
\* the chunk is empty
C15_ProofPerChunkAndSingleRoot ==
    [][GenerateMerkleTree =>
          LET tree == MerkleLevels(chunks)
          IN  /\ Len(merkle'.proofs) = Len(chunks)
              /\ Len(tree[1]) = 1
              /\ merkle'.root = tree[1][1]
              /\ Len(chunks) = 1 =>
                    /\ merkle'.root = LeafHash(chunks[1])
                    /\ merkle'.proofs[1] = <<>>]_vars

\* C15 witness: generateMerkleTree has returned for a list of one chunk
C15_Witness ==
    /\ merkle.done
    /\ Len(chunks) = 1
    /\ merkle.proofs = << <<>> >>

RECURSIVE Halved(_, _)
\* index = Math.floor(index / 2), times over: the 0-based index of the
\* ancestor of a node, times levels above it
Halved(index, times) == IF times = 0 THEN index ELSE Halved(index \div 2, times - 1)

\* The node at 0-based index on level j of tree is the last one of an odd level
Unpaired(tree, j, index) == Len(tree[j]) % 2 = 1 /\ index = Len(tree[j]) - 1

\* C17: in the tree generateMerkleTree builds, the last node of every level
\* with an odd number of nodes is the last node of the level above, unchanged,
\* and that level has no node more than the pairs and the promoted node; the
\* proof of a leaf holds exactly the siblings of the ancestors of the leaf, from
\* the leaves up, and nothing for a level where the ancestor is such a last node
C17_OddNodePromotedUnchanged ==
    [][GenerateMerkleTree =>
          LET tree == MerkleLevels(chunks)
              height == Len(tree)
          IN  /\ \A j \in 2..height :
                    Len(tree[j]) % 2 = 1 =>
                        /\ Len(tree[j - 1]) = (Len(tree[j]) + 1) \div 2
                        /\ tree[j - 1][Len(tree[j - 1])] = tree[j][Len(tree[j])]
              /\ \A i \in 1..Len(chunks) :
                    LET paired == {j \in 2..height :
                                      ~Unpaired(tree, j, Halved(i - 1, height - j))}
                    IN  /\ Len(merkle'.proofs[i]) = Cardinality(paired)
                        /\ \A j \in paired :
                              LET index == Halved(i - 1, height - j)
                                  siblingIndex == IF index % 2 = 0 THEN index + 1
                                                  ELSE index - 1
                                  position == Cardinality({m \in paired : m >= j})
                              IN  merkle'.proofs[i][position] = tree[j][siblingIndex + 1]]_vars

\* C17 witness: generateMerkleTree has returned for five chunks (levels of 5,
\* 3, 2 and 1 nodes); the fifth leaf is the odd last node of two levels and its
\* proof has one sibling, the first leaf has three
C17_Witness ==
    /\ merkle.done
    /\ Len(chunks) = 5
    /\ Len(merkle.proofs[5]) = 1
    /\ Len(merkle.proofs[1]) = 3

\* verifyMerkleProof as a function of its three arguments
InitProbe ==
    /\ chunks = <<>>
    /\ merkle = NoMerkle
    /\ verif = NoVerif
    /\ probe \in {[called |-> FALSE, chunk |-> c, proof |-> p, root |-> r, result |-> FALSE] :
                      c \in ProbeChunks, p \in ProbeProofs, r \in ProbeRoots}
    /\ ShamirIdle
    /\ FileIdle
    /\ OnionIdle
    /\ KeyFileIdle
    /\ BruteIdle
    /\ UploadIdle
    /\ SecurityIdle
    /\ AuditIdle
    /\ StoreIdle

VerifyMerkleProof ==
    /\ ~probe.called
    /\ probe' = [probe EXCEPT !.called = TRUE,
                              !.result = verifyMerkleProof(probe.chunk, probe.proof, probe.root)]
    /\ UNCHANGED <<chunks, merkle, verif>>
    /\ UNCHANGED <<shamirVars, fileVars, onionVars, keyFileVars, bruteVars, uploadVars, securityVars,
                 auditVars, storeVars>>

NextProbe == VerifyMerkleProof

SpecProbe == InitProbe /\ [][NextProbe]_vars

\* C16: verifyMerkleProof returns a boolean for every chunk, proof and root,
\* the empty chunk and the empty proof included, and it returns false whenever
\* the hash the chunk and the proof fold to differs from root
C16_VerifyIsTotalPredicate ==
    probe.called =>
        /\ probe.result \in BOOLEAN
        /\ FoldProof(LeafHash(probe.chunk), probe.proof) # probe.root => probe.result = FALSE

\* C16 witness: verifyMerkleProof was called on the empty chunk with the empty
\* proof and a root that is not the empty string, and returned false
C16_Witness ==
    /\ probe.called
    /\ probe.chunk = <<>>
    /\ probe.proof = <<>>
    /\ probe.root # <<>>
    /\ probe.result = FALSE

(***************************************************************************)
(* The splitter / combiner as a state machine                              *)
(***************************************************************************)

InitShamir ==
    /\ \E s \in SecretSet : \E c \in SplitConfigs :
          secret = [text |-> s, numShares |-> c[1], threshold |-> c[2]]
    /\ shares = NoShares
    /\ combined = NoCombined
    /\ MerkleIdle
    /\ FileIdle
    /\ OnionIdle
    /\ KeyFileIdle
    /\ BruteIdle
    /\ UploadIdle
    /\ SecurityIdle
    /\ AuditIdle
    /\ StoreIdle

SplitKey(coefs) ==
    /\ shares = NoShares
    /\ shares' = splitKey(secret.text, secret.numShares, secret.threshold, coefs)
    /\ UNCHANGED <<secret, combined>>
    /\ UNCHANGED <<merkleVars, fileVars, onionVars, keyFileVars, bruteVars, uploadVars, securityVars,
                 auditVars, storeVars>>

\* The sequences of positions 1..n of length at most k
Picks(n, k) == UNION {[1..m -> 1..n] : m \in 0..k}

Distinct(p) == \A a, b \in 1..Len(p) : a # b => p[a] # p[b]

\* combineShares on some of the shares (distinct x), in some order
CombineShares(pick, t) ==
    /\ shares # NoShares
    /\ ~combined.called
    /\ Distinct(pick)
    /\ LET input == [k \in 1..Len(pick) |-> shares[pick[k]]]
           out   == combineShares(input, t)
       IN  combined' = [called |-> TRUE, input |-> input, threshold |-> t,
                        kind |-> out.kind, parsed |-> out.parsed, value |-> out.value]
    /\ UNCHANGED <<secret, shares>>
    /\ UNCHANGED <<merkleVars, fileVars, onionVars, keyFileVars, bruteVars, uploadVars, securityVars,
                 auditVars, storeVars>>

NextShamir ==
    \/ \E coefs \in [1..(secret.threshold - 1) -> 0..MaxCoef] : SplitKey(coefs)
    \/ \E pick \in Picks(secret.numShares, secret.threshold + 1) :
          \E t \in (secret.threshold - 1)..(secret.threshold + 1) : CombineShares(pick, t)

SpecShamir == InitShamir /\ [][NextShamir]_vars

\* C3: for shares of splitKey(secret, 5, 3), combineShares with threshold 3 on
\* any 3 shares with distinct x, in any order, returns exactly the secret
C3_CombineRecoversSecret ==
    (combined.called /\ secret.numShares = 5 /\ secret.threshold = 3
        /\ combined.threshold = 3 /\ Len(combined.input) = 3)
    => (combined.kind = "returned" /\ combined.value = secret.text)

\* C23: whatever shares of one splitKey call (distinct x) and whatever
\* threshold argument combineShares is given, it throws or returns exactly the
\* secret that was split
C23_NeverWrongSecret ==
    (combined.called /\ combined.kind = "returned") => combined.value = secret.text

\* C4: a call with fewer shares than the threshold throws before any share is
\* parsed and returns no value
C4_TooFewSharesRejected ==
    (combined.called /\ Len(combined.input) < combined.threshold)
    => (combined.kind = "Error" /\ combined.parsed = 0 /\ combined.value = <<>>)

\* C4 witness: a call with fewer shares than the threshold was made and threw
C4_Witness ==
    /\ combined.called
    /\ Len(combined.input) = combined.threshold - 1
    /\ Len(combined.input) > 0
    /\ combined.kind = "Error"

(***************************************************************************)
(* The single-layer file codec as a state machine                          *)
(***************************************************************************)

InitFile ==
    /\ file \in FileSet
    /\ encKey \in KeyStrings
    /\ encrypted = NoEncrypted
    /\ decrypted = NoDecrypted
    /\ download = NoDownload
    /\ MerkleIdle
    /\ ShamirIdle
    /\ OnionIdle
    /\ KeyFileIdle
    /\ BruteIdle
    /\ UploadIdle
    /\ SecurityIdle
    /\ AuditIdle
    /\ StoreIdle

EncryptFile(iv) ==
    /\ ~encrypted.called
    /\ encrypted' = [called |-> TRUE, result |-> encryptFile(file, encKey, iv),
                     steps |-> encryptFileSteps(file, encKey)]
    /\ UNCHANGED <<file, encKey, decrypted, download>>
    /\ UNCHANGED <<merkleVars, shamirVars, onionVars, keyFileVars, bruteVars, uploadVars, securityVars,
                 auditVars, storeVars>>

\* The IV strings a decryptFile call may find in the metadata: the one
\* encryptFile wrote, none, that of another IV, and one that is not base64
MetadataIvs == {encrypted.result.metadata.iv, <<>>} \cup {Btoa(iv) : iv \in IvSet} \cup {<<33>>}

\* decryptFile on the encrypted file (one bit of it changed if damaged), with
\* the metadata of the encryption except for the IV string, and a key string
DecryptFile(key, ivBase64, damaged) ==
    /\ encrypted.called
    /\ encrypted.result.kind = "returned"
    /\ ~decrypted.called
    /\ LET stored == [encrypted.result.file EXCEPT !.content.damaged = damaged]
           meta   == [encrypted.result.metadata EXCEPT !.iv = ivBase64]
       IN  decrypted' = [called |-> TRUE, key |-> key, iv |-> ivBase64, damaged |-> damaged,
                         result |-> decryptFile(stored, meta, key)]
    /\ UNCHANGED <<file, encKey, encrypted, download>>
    /\ UNCHANGED <<merkleVars, shamirVars, onionVars, keyFileVars, bruteVars, uploadVars, securityVars,
                 auditVars, storeVars>>

\* The download dialog of a file that was encrypted and stored, with a key
\* typed or pasted into it
HandleDecryptAndDownload(key, fetched) ==
    /\ encrypted.called
    /\ encrypted.result.kind = "returned"
    /\ ~decrypted.called
    /\ ~download.called
    /\ LET out == handleDecryptAndDownload(encrypted.result.file, encrypted.result.metadata,
                                           key, fetched)
       IN  download' = [called |-> TRUE, key |-> key, fetched |-> fetched,
                        error |-> out.error, reached |-> out.reached, saved |-> out.saved,
                        file |-> out.file]
    /\ UNCHANGED <<file, encKey, encrypted, decrypted>>
    /\ UNCHANGED <<merkleVars, shamirVars, onionVars, keyFileVars, bruteVars, uploadVars, securityVars,
                 auditVars, storeVars>>

NextFile ==
    \/ \E iv \in IvSet : EncryptFile(iv)
    \/ \E key \in KeyStrings : \E ivBase64 \in MetadataIvs : \E damaged \in BOOLEAN :
          DecryptFile(key, ivBase64, damaged)
    \/ \E key \in KeyStrings : \E fetched \in BOOLEAN : HandleDecryptAndDownload(key, fetched)

SpecFile == InitFile /\ [][NextFile]_vars

\* The decryptFile call was handed exactly what encryptFile took and returned
SameAsEncrypted ==
    /\ decrypted.called
    /\ decrypted.key = encKey
    /\ decrypted.iv = encrypted.result.metadata.iv
    /\ ~decrypted.damaged

\* C5: with a file of at most 15 MB and a 128-bit hex key, encryptFile returns,
\* and decryptFile on its encrypted file and metadata with the same key
\* returns a file whose content is the content of the original file
C5_DecryptInvertsEncrypt ==
    (file.size <= MAX_ENCRYPTION_SIZE /\ IsHexOfLength(encKey, 32))
    => /\ encrypted.called => encrypted.result.kind = "returned"
       /\ SameAsEncrypted => /\ decrypted.result.kind = "returned"
                              /\ decrypted.result.file.content = file.content

\* C5 witness: a file of 15 MB went through encryptFile and decryptFile
C5_Witness ==
    /\ SameAsEncrypted
    /\ IsHexOfLength(encKey, 32)
    /\ file.size = MAX_ENCRYPTION_SIZE
    /\ decrypted.result.kind = "returned"
    /\ decrypted.result.file.content.plain = <<37, 80>>

\* C6: decryptFile returns a file only if its key bytes and IV bytes are
\* those of the encryption and the ciphertext is unchanged, and then the
\* content is the original one; in every other case it throws an Error
C6_OnlyExactInputsDecrypt ==
    decrypted.called =>
       /\ decrypted.result.kind \in {"returned", "Error"}
       /\ decrypted.result.kind = "returned" =>
             /\ HexToBytes(decrypted.key) = HexToBytes(encKey)
             /\ base64ToBuffer(decrypted.iv).bytes
                   = base64ToBuffer(encrypted.result.metadata.iv).bytes
             /\ ~decrypted.damaged
             /\ decrypted.result.file.content = file.content

\* C6 witness: decryptFile was run with the right key and IV on a ciphertext
\* with one bit changed, and threw
C6_Witness ==
    /\ decrypted.called
    /\ decrypted.damaged
    /\ decrypted.key = encKey
    /\ decrypted.iv = encrypted.result.metadata.iv
    /\ decrypted.result.kind = "Error"
    /\ decrypted.result.message = "OperationError"

\* C24: a file that was encrypted under a key of the shape
\* generateEncryptionKey produces (32 hex digits) and is fetched for download
\* with the same key typed in passes the key validation of
\* handleDecryptAndDownload, reaches decryptFile and is saved decrypted, with
\* the content that was encrypted
C24_GeneratedKeyDownloads ==
    (download.called /\ download.fetched /\ IsHexOfLength(encKey, 32)
        /\ download.key = encKey)
    => /\ download.reached
       /\ download.saved
       /\ download.file.content = file.content

\* C14: encryptFile throws on every file larger than 15 MB, having touched
\* nothing but the size of the file (no read of the file, no IV drawn, no key
\* imported); on a file of exactly 15 MB the guard does not throw and the file
\* is read
C14_SizeGuardFirst ==
    encrypted.called =>
        /\ file.size > 15 * 1024 * 1024 =>
              /\ encrypted.result.kind = "Error"
              /\ encrypted.result.message = "File is too large for encryption"
              /\ encrypted.steps = <<"file.size">>
        /\ file.size = 15 * 1024 * 1024 =>
              /\ encrypted.result.message # "File is too large for encryption"
              /\ Len(encrypted.steps) >= 2
              /\ encrypted.steps[1] = "file.size"
              /\ encrypted.steps[2] = "arrayBuffer"

\* C14 witness: encryptFile was called on a file one byte above 15 MB with a
\* key that would import, and threw
C14_Witness ==
    /\ encrypted.called
    /\ file.size = 15 * 1024 * 1024 + 1
    /\ ImportKeyOk(HexToBytes(encKey))
    /\ encrypted.result.kind = "Error"

(***************************************************************************)
(* The onion codec as a state machine                                      *)
(***************************************************************************)

InitOnion ==
    /\ request \in [data : DataSet, primaryKey : PrimaryKeys]
    /\ onion = NoOnion
    /\ libOut = NoLibOut
    /\ cmpOut = NoCmpOut
    /\ MerkleIdle
    /\ ShamirIdle
    /\ FileIdle
    /\ KeyFileIdle
    /\ BruteIdle
    /\ UploadIdle
    /\ SecurityIdle
    /\ AuditIdle
    /\ StoreIdle

MultiLayerEncrypt(draw) ==
    /\ ~onion.called
    /\ onion' = multiLayerEncrypt(request.data, request.primaryKey,
                                  draw.keys, draw.ivs, draw.sealIv)
    /\ UNCHANGED <<request, libOut, cmpOut>>
    /\ UNCHANGED <<merkleVars, shamirVars, fileVars, keyFileVars, bruteVars, uploadVars, securityVars,
                 auditVars, storeVars>>

\* An IV string other than the given one
OtherIv(ivBase64) == Btoa(CHOOSE v \in {Iv12(13), Iv12(14)} : Btoa(v) # ivBase64)

\* What a decryption is handed as metadata: that of the encryption (change 0),
\* or with the IV string of layer number change replaced, or (change
\* LAYERS + 1) without its last layer, or (change LAYERS + 2) with the
\* version tag "2.0"; sealDamaged changes a bit of the encrypted layer keys
HandedMetadata(change, sealDamaged) ==
    [onion.metadata EXCEPT
        !.version = IF change = LAYERS + 2 THEN "2.0" ELSE @,
        !.layers = IF change = 0 THEN @
                   ELSE IF change <= LAYERS
                   THEN [@ EXCEPT ![change].ivBase64 = OtherIv(@)]
                   ELSE IF change = LAYERS + 1 THEN SubSeq(@, 1, Len(@) - 1)
                   ELSE @,
        !.encryptedLayerKeys.ct.damaged = sealDamaged]

\* What a decryption is handed as data: the encrypted data, with one bit
\* changed if damaged
HandedData(damaged) == [onion.encryptedData EXCEPT !.damaged = damaged]

Call(primaryKey, change, damaged, sealDamaged) ==
    [called |-> TRUE, primaryKey |-> primaryKey, change |-> change, damaged |-> damaged,
     sealDamaged |-> sealDamaged, metadata |-> HandedMetadata(change, sealDamaged)]

\* lib multiLayerDecrypt
LibDecrypt(primaryKey, change, damaged, sealDamaged) ==
    /\ onion.called
    /\ ~libOut.call.called
    /\ ~cmpOut.call.called
    /\ LET out == multiLayerDecrypt(HandedData(damaged),
                                    HandedMetadata(change, sealDamaged), primaryKey)
       IN  libOut' = [call |-> Call(primaryKey, change, damaged, sealDamaged),
                      kind |-> out.kind, stage |-> out.stage, data |-> out.data,
                      trace |-> out.trace]
    /\ UNCHANGED <<request, onion, cmpOut>>
    /\ UNCHANGED <<merkleVars, shamirVars, fileVars, keyFileVars, bruteVars, uploadVars, securityVars,
                 auditVars, storeVars>>

\* handleDecrypt: with a key entered (it returns early without one), the
\* component's multiLayerDecrypt on the file content and the metadata
ComponentDecrypt(primaryKey, change, damaged, sealDamaged) ==
    /\ onion.called
    /\ primaryKey # <<>>
    /\ ~libOut.call.called
    /\ ~cmpOut.call.called
    /\ LET out == componentMultiLayerDecrypt(HandedData(damaged),
                                             HandedMetadata(change, sealDamaged), primaryKey)
       IN  cmpOut' = [call |-> Call(primaryKey, change, damaged, sealDamaged),
                      kind |-> out.kind, stage |-> out.stage, data |-> out.data]
    /\ UNCHANGED <<request, onion, libOut>>
    /\ UNCHANGED <<merkleVars, shamirVars, fileVars, keyFileVars, bruteVars, uploadVars, securityVars,
                 auditVars, storeVars>>

NextOnion ==
    \/ \E draw \in RandomDraws : MultiLayerEncrypt(draw)
    \/ \E primaryKey \in PrimaryKeys : \E change \in 0..(LAYERS + 2) :
          \E damaged \in BOOLEAN : \E sealDamaged \in BOOLEAN :
             LibDecrypt(primaryKey, change, damaged, sealDamaged)
    \/ \E primaryKey \in PrimaryKeys : \E change \in 0..(LAYERS + 2) :
          \E damaged \in BOOLEAN : \E sealDamaged \in BOOLEAN :
             ComponentDecrypt(primaryKey, change, damaged, sealDamaged)

SpecOnion == InitOnion /\ [][NextOnion]_vars

\* The call was handed the encrypted data and metadata of the encryption,
\* unchanged, and the primary key of the encryption
Untouched(call) ==
    /\ call.called
    /\ call.primaryKey = request.primaryKey
    /\ call.change = 0
    /\ ~call.damaged
    /\ ~call.sealDamaged

C8_LastAppliedFirst ==
    libOut.call.called =>
       /\ \A j \in 1..Len(libOut.trace) :
             LET i == Len(libOut.call.metadata.layers) - j
             IN  /\ libOut.trace[j].index = i
                 /\ libOut.trace[j].key = HexToBytes(onion.layerKeys[i + 1])
                 /\ libOut.trace[j].iv = Atob(libOut.call.metadata.layers[i + 1].ivBase64).bytes
       /\ Untouched(libOut.call) =>
             /\ Len(libOut.trace) = LAYERS
             /\ \A j \in 1..LAYERS :
                   [key |-> libOut.trace[j].key, iv |-> libOut.trace[j].iv]
                      = onion.encryptedData.layers[libOut.trace[j].index + 1]

\* C8 witness: an untouched three-layer decryption whose layers had different
\* keys and different IVs
C8_Witness ==
    /\ Untouched(libOut.call)
    /\ Len(libOut.trace) = LAYERS
    /\ libOut.trace[1].key # libOut.trace[2].key
    /\ libOut.trace[1].iv # libOut.trace[LAYERS].iv
    /\ libOut.trace[1].index = LAYERS - 1

\* C9: neither decryptor returns a buffer that still carries an encryption
\* layer: whatever either of them returns is the fully decrypted buffer
C9_NoPartialResult ==
    /\ (libOut.call.called /\ libOut.kind = "returned")
          => (libOut.data.layers = <<>> /\ libOut.data = request.data)
    /\ (cmpOut.call.called /\ cmpOut.kind = "returned")
          => (cmpOut.data.layers = <<>> /\ cmpOut.data = request.data)

\* The kind of error that escapes lib multiLayerDecrypt when subtle.decrypt
\* rejects a data layer
DataLayerFailure == "OperationError"

\* C10: when lib multiLayerDecrypt fails to unwrap the layer keys, the error
\* it throws is of another kind than the one a failing data layer gives
C10_KeyRecoveryErrorDistinct ==
    (libOut.call.called /\ libOut.stage = "keys") => libOut.kind # DataLayerFailure

\* C22: the error lib multiLayerDecrypt throws when it cannot recover the
\* layer keys (key-bundle failure) differs in kind from the error the same
\* call throws when the layer keys are recovered and a data layer fails to
\* authenticate, so that a caller can tell the two apart
C22_FailuresDistinguishable ==
    (libOut.call.called /\ libOut.stage = "keys") =>
        LET authFailure == multiLayerDecrypt(HandedData(TRUE), onion.metadata,
                                             request.primaryKey)
        IN  /\ authFailure.kind # "returned"
            /\ authFailure.stage # "keys"
            /\ libOut.kind # authFailure.kind

\* C11: handed metadata whose version is not "1.0", lib multiLayerDecrypt
\* fails with UnsupportedVersionError and makes no subtle.decrypt call on the
\* data
C11_UnsupportedVersionRejected ==
    (libOut.call.called /\ libOut.call.metadata.version # "1.0")
    => (libOut.kind = "UnsupportedVersionError" /\ libOut.trace = <<>>)

\* C12: the key bytes under which encryptLayerKeys sealed the layer keys are
\* the ones lib decryptLayerKeys derives from the same primary key string, and
\* the ones the component's decryptLayerKeys derives in one of its approaches
\* at least, so both recover the layer keys of an untouched encryption
C12_SameKeyAtEverySite ==
    /\ onion.called =>
          LET sealKey == onion.metadata.encryptedLayerKeys.ct.layers[1].key
          IN  /\ sealKey = SealKeyBytes(request.primaryKey)
              /\ sealKey = UnsealKeyBytes(request.primaryKey)
              /\ \E keyLength \in {128, 256} :
                    UnsealAttempts(request.primaryKey, keyLength, <<>>)[1].key = sealKey
    /\ Untouched(libOut.call) => libOut.stage # "keys"
    /\ Untouched(cmpOut.call) => cmpOut.stage # "keys"

\* C18: what multiLayerEncrypt returns has metadata of version "1.0" with
\* LAYERS layers; the entry at position i (from 0) has layerIndex i and the IV
\* of the i-th layer applied to the data; the array sealed in
\* encryptedLayerKeys has LAYERS keys, and decryptLayerKeys under the same
\* primary key recovers as many keys as there are layers
C18_MetadataShape ==
    onion.called =>
        LET layers == onion.metadata.layers
            sealed == JsonParse(TextDecode(onion.metadata.encryptedLayerKeys.ct.plain))
            recovered == decryptLayerKeys(onion.metadata.encryptedLayerKeys, request.primaryKey)
        IN  /\ onion.metadata.version = "1.0"
            /\ Len(layers) = LAYERS
            /\ Len(onion.encryptedData.layers) = LAYERS
            /\ \A i \in 1..LAYERS :
                  /\ layers[i].layerIndex = i - 1
                  /\ Atob(layers[i].ivBase64).ok
                  /\ Atob(layers[i].ivBase64).bytes = onion.encryptedData.layers[i].iv
            /\ sealed.ok
            /\ Len(sealed.value) = LAYERS
            /\ recovered.ok
            /\ Len(recovered.keys) = Len(layers)

\* C18 witness: multiLayerEncrypt has returned for a non-empty buffer, and the
\* last entry of the layers has layerIndex LAYERS - 1
C18_Witness ==
    /\ onion.called
    /\ request.data.plain # <<>>
    /\ Len(onion.metadata.layers) = LAYERS
    /\ onion.metadata.layers[LAYERS].layerIndex = LAYERS - 1

\* C19: the value multiLayerEncrypt returns holds no layer key in plaintext:
\* none of the strings in it outside the ciphertexts (the layerKeys field, the
\* IV strings of the layers, the IV string of encryptedLayerKeys) is the hex
\* string of a key a layer was encrypted with
C19_LayerKeysStayInside ==
    onion.called =>
        LET generated == {HexJoin(onion.encryptedData.layers[i].key) :
                             i \in 1..Len(onion.encryptedData.layers)}
        IN  /\ \A i \in 1..Len(onion.layerKeys) : onion.layerKeys[i] \notin generated
            /\ \A i \in 1..Len(onion.metadata.layers) :
                  onion.metadata.layers[i].ivBase64 \notin generated
            /\ onion.metadata.encryptedLayerKeys.ivBase64 \notin generated

(***************************************************************************)
(* The key file as a state machine                                         *)
(***************************************************************************)

InitKeyFile ==
    /\ \E n \in UploadNames : \E k \in UploadKeys :
          keyFile = [written |-> FALSE, fileName |-> n, key |-> k, content |-> <<>>]
    /\ keyRead = NoKeyRead
    /\ MerkleIdle
    /\ ShamirIdle
    /\ FileIdle
    /\ OnionIdle
    /\ BruteIdle
    /\ UploadIdle
    /\ SecurityIdle
    /\ AuditIdle
    /\ StoreIdle

\* handleUpload with encryption on and a key entered: the key file it
\* downloads before it encrypts
DownloadKeyFile ==
    /\ ~keyFile.written
    /\ keyFile.key # <<>>
    /\ keyFile' = [keyFile EXCEPT !.written = TRUE,
                                  !.content = KeyFileContent(keyFile.fileName, UploadDate,
                                                             keyFile.key)]
    /\ UNCHANGED keyRead
    /\ UNCHANGED <<merkleVars, shamirVars, fileVars, onionVars, bruteVars, uploadVars, securityVars,
                 auditVars, storeVars>>

\* One of the readers is given the key file
ReadKeyFile(reader) ==
    /\ keyFile.written
    /\ ~keyRead.called
    /\ LET m == MatchKey(keyFile.content, reader.least, reader.most)
       IN  keyRead' = [called |-> TRUE, reader |-> reader.name, found |-> m.found,
                       key |-> m.key]
    /\ UNCHANGED keyFile
    /\ UNCHANGED <<merkleVars, shamirVars, fileVars, onionVars, bruteVars, uploadVars, securityVars,
                 auditVars, storeVars>>

NextKeyFile ==
    \/ DownloadKeyFile
    \/ \E reader \in KeyFileReaders : ReadKeyFile(reader)

SpecKeyFile == InitKeyFile /\ [][NextKeyFile]_vars

\* C13: whichever reader is given the key file of a hex key of 32 to 64
\* digits, it finds a key, and that key is the one that was written
C13_KeyFileRoundTrip ==
    (keyRead.called /\ Len(keyFile.key) >= 32 /\ Len(keyFile.key) <= 64
        /\ \A i \in 1..Len(keyFile.key) : HexDigitValue(keyFile.key[i]) >= 0)
    => (keyRead.found /\ keyRead.key = keyFile.key)

(***************************************************************************)
(* The brute force as a state machine: one step per loop head, per          *)
(* simplifiedDecrypt call, and the finally block of handleDecrypt           *)
(***************************************************************************)

InitBrute ==
    /\ brute \in UNION {{[NoBrute EXCEPT !.fileContent = c, !.encryptionKey = k, !.iv = v] :
                              c \in BruteContents(k, v)} : k \in BruteKeys, v \in BruteIvs}
    /\ MerkleIdle
    /\ ShamirIdle
    /\ FileIdle
    /\ OnionIdle
    /\ KeyFileIdle
    /\ UploadIdle
    /\ SecurityIdle
    /\ AuditIdle
    /\ StoreIdle

\* handleDecrypt in brute force mode, up to the loop of bruteForceDecrypt
HandleDecrypt ==
    /\ brute.pc = "idle"
    /\ brute.encryptionKey # <<>>
    /\ brute' = [brute EXCEPT !.pc = "combination"]
    /\ UNCHANGED <<merkleVars, shamirVars, fileVars, onionVars, keyFileVars, uploadVars,
                 securityVars, auditVars, storeVars>>

\* The algorithm and key length of combination number k of the two loops
CombinationAlgorithm(k) == ALGORITHMS[((k - 1) \div Len(KEY_LENGTHS)) + 1]

CombinationKeyLength(k) == KEY_LENGTHS[((k - 1) % Len(KEY_LENGTHS)) + 1]

\* The head of the inner loop: the next combination is counted and the
\* progress set, or the loops are over and the error is set
NextCombination ==
    /\ brute.pc = "combination"
    /\ LET totalCombinations == Len(ALGORITHMS) * Len(KEY_LENGTHS)
           next == brute.currentCombination + 1
           progress == (next * 100) \div totalCombinations
       IN  brute' = IF brute.currentCombination < totalCombinations
                    THEN [brute EXCEPT !.currentCombination = next,
                                       !.decryptionProgress = progress,
                                       !.reported = Append(@, progress),
                                       !.pc = IF brute.iv # <<>> THEN "provided"
                                              ELSE "derived"]
                    ELSE [brute EXCEPT !.pc = "returned", !.outcome = "exhausted"]
    /\ UNCHANGED <<merkleVars, shamirVars, fileVars, onionVars, keyFileVars, uploadVars,
                 securityVars, auditVars, storeVars>>

\* One simplifiedDecrypt call of the current combination, with the provided
\* IV or with none; after it the function returns or goes on to where
Attempt(usedProvidedIV, where) ==
    LET alg == CombinationAlgorithm(brute.currentCombination)
        kl  == CombinationKeyLength(brute.currentCombination)
        ok  == simplifiedDecrypt(brute.fileContent, brute.encryptionKey,
                                 IF usedProvidedIV THEN brute.iv ELSE <<>>, alg, kl)
    IN  [brute EXCEPT !.attempts = Append(@, [algorithm |-> alg, keyLength |-> kl,
                                              usedProvidedIV |-> usedProvidedIV,
                                              ok |-> ok]),
                      !.outcome = IF ok THEN "success" ELSE @,
                      !.pc = IF ok THEN "returned" ELSE where]

AttemptProvided ==
    /\ brute.pc = "provided"
    /\ brute' = Attempt(TRUE, "derived")
    /\ UNCHANGED <<merkleVars, shamirVars, fileVars, onionVars, keyFileVars, uploadVars,
                 securityVars, auditVars, storeVars>>

AttemptDerived ==
    /\ brute.pc = "derived"
    /\ brute' = Attempt(FALSE, "combination")
    /\ UNCHANGED <<merkleVars, shamirVars, fileVars, onionVars, keyFileVars, uploadVars,
                 securityVars, auditVars, storeVars>>

\* The finally block of handleDecrypt
Finally ==
    /\ brute.pc = "returned"
    /\ brute' = [brute EXCEPT !.pc = "finished", !.decryptionProgress = 0]
    /\ UNCHANGED <<merkleVars, shamirVars, fileVars, onionVars, keyFileVars, uploadVars,
                 securityVars, auditVars, storeVars>>

NextBrute ==
    \/ HandleDecrypt
    \/ NextCombination
    \/ AttemptProvided
    \/ AttemptDerived
    \/ Finally

SpecBrute == InitBrute /\ [][NextBrute]_vars

\* The place of an attempt in the order AES-GCM, AES-CBC, AES-CTR; within an
\* algorithm 128 bits before 256; within a pair the provided IV before the
\* derived one
AttemptRank(attempt) ==
    4 * (IF attempt.algorithm = "AES-GCM" THEN 0
         ELSE IF attempt.algorithm = "AES-CBC" THEN 1 ELSE 2)
    + (IF attempt.keyLength = 128 THEN 0 ELSE 2)
    + (IF attempt.usedProvidedIV THEN 0 ELSE 1)

\* C20: the simplifiedDecrypt calls of a bruteForceDecrypt run are the leading
\* candidates of the fixed order, none left out (without a provided IV, the
\* candidates with the derived IV); no call follows one that succeeded; the
\* progress reported for combination k is floor(k / 6 * 100), the reported
\* values never decrease, and until the run has returned the progress shown is
\* the last one reported
C20_FixedOrderStopAtFirstSuccess ==
    /\ \A j \in 1..Len(brute.attempts) :
          /\ brute.attempts[j].algorithm \in {"AES-GCM", "AES-CBC", "AES-CTR"}
          /\ brute.attempts[j].keyLength \in {128, 256}
          /\ AttemptRank(brute.attempts[j]) =
                 IF brute.iv # <<>> THEN j - 1 ELSE 2 * (j - 1) + 1
          /\ j < Len(brute.attempts) => ~brute.attempts[j].ok
    /\ brute.outcome = "success" <=>
          (brute.attempts # <<>> /\ brute.attempts[Len(brute.attempts)].ok)
    /\ brute.outcome = "success" => brute.pc \in {"returned", "finished"}
    /\ Len(brute.reported) = brute.currentCombination
    /\ \A k \in 1..Len(brute.reported) :
          /\ brute.reported[k] = (k * 100) \div 6
          /\ k > 1 => brute.reported[k - 1] <= brute.reported[k]
    /\ (brute.pc \in {"provided", "derived", "combination"} /\ brute.reported # <<>>)
          => brute.decryptionProgress = brute.reported[Len(brute.reported)]

\* C21: a bruteForceDecrypt run on a file that was not made with key bytes the
\* typed key yields (neither at 128 nor at 256 bits) ends with the error "All
\* decryption combinations failed": no simplifiedDecrypt call of the run
\* succeeds, so handleSuccessfulDecryption sets no success message and
\* triggers no download
C21_WrongKeyNeverSucceeds ==
    (/\ brute.fileContent.key # AttemptKeyData(brute.encryptionKey, 128)
     /\ brute.fileContent.key # AttemptKeyData(brute.encryptionKey, 256))
    => /\ \A j \in 1..Len(brute.attempts) : ~brute.attempts[j].ok
       /\ brute.outcome # "success"
       /\ brute.pc \in {"returned", "finished"} => brute.outcome = "exhausted"

\* C20 witness: with a provided IV of 12 bytes, nine calls failed and the
\* tenth (AES-CTR, 128 bits, derived IV) succeeded in combination 5
C20_Witness ==
    /\ brute.outcome = "success"
    /\ Len(brute.attempts) = 10
    /\ brute.attempts[10].algorithm = "AES-CTR"
    /\ ~brute.attempts[10].usedProvidedIV
    /\ brute.reported = <<16, 33, 50, 66, 83>>


(***************************************************************************)
(* The FileUpload component as a state machine.  upload.encryptionKey is   *)
(* the component's state; upload.closureKey is the encryptionKey constant  *)
(* of the render handleUpload was created in, which the running handler    *)
(* keeps reading whatever setEncryptionKey is given meanwhile.  The key    *)
(* file is kept as the key written into its text.                          *)
(***************************************************************************)

InitUpload ==
    /\ \E f \in UploadFiles : \E enabled \in BOOLEAN : \E remember \in BOOLEAN :
       \E saved \in {<<>>, HexJoin(Key16(1))} :
          /\ (saved # <<>> => remember)
          /\ storage = [NoStorage EXCEPT
                            !.rememberPassword = remember,
                            !.encryptionKey = IF saved = <<>> THEN NoSavedKey
                                              ELSE [present |-> TRUE, key |-> saved]]
          /\ upload = [NoUpload EXCEPT !.file = f, !.useEncryption = enabled,
                                       !.encryptionKey = saved,
                                       !.rememberKey = remember]
    /\ MerkleIdle
    /\ ShamirIdle
    /\ FileIdle
    /\ OnionIdle
    /\ KeyFileIdle
    /\ BruteIdle
    /\ SecurityIdle
    /\ AuditIdle
    /\ StoreIdle

\* The controls of the card are disabled while uploading
ControlsEnabled == ~upload.uploading /\ upload.pc \in {"idle", "done"}

\* onChange of the key field: setEncryptionKey(e.target.value)
EnterKey(key) ==
    /\ ControlsEnabled
    /\ upload.useEncryption
    /\ upload' = [upload EXCEPT !.encryptionKey = key]
    /\ UNCHANGED storage
    /\ UNCHANGED <<merkleVars, shamirVars, fileVars, onionVars, keyFileVars, bruteVars,
                 securityVars, auditVars, storeVars>>

\* handleRememberKeyChange
HandleRememberKeyChange(checked) ==
    /\ ControlsEnabled
    /\ upload.useEncryption
    /\ upload' = [upload EXCEPT !.rememberKey = checked]
    /\ storage' = IF checked /\ upload.encryptionKey # <<>>
                  THEN saveEncryptionKey(storage, upload.encryptionKey)
                  ELSE IF ~checked THEN clearEncryptionKey(storage)
                  ELSE storage
    /\ UNCHANGED <<merkleVars, shamirVars, fileVars, onionVars, keyFileVars, bruteVars,
                 securityVars, auditVars, storeVars>>

\* What one run of handleUpload has done so far: nothing
FreshRun(u) ==
    [u EXCEPT !.keyFile = NoUpload.keyFile, !.encryptCall = NoUpload.encryptCall,
              !.metadata = NoMetadata, !.storeCall = NoUpload.storeCall,
              !.ipfsHash = ""]

\* handleUpload from setUploading(true) to its first await, with the key
\* generateEncryptionKey returns if it is called and the IV encryptFile draws
\* if it is called; encryptFile(file, encryptionKey) hands back a promise,
\* kept with what it will settle to
handleUploadBody(run, newKey, iv) ==
    IF ~run.useEncryption
    THEN [run EXCEPT !.uploading = TRUE, !.status = "uploading",
                     !.storeCall = [called |-> TRUE, resolved |-> FALSE],
                     !.pc = "storing"]
    ELSE IF run.closureKey = <<>>
    THEN [run EXCEPT !.uploading = FALSE, !.status = "error", !.pc = "done"]
    ELSE [run EXCEPT !.uploading = TRUE,
                     !.encryptionKey = IF IsHexOfLength(run.closureKey, 32)
                                       THEN run.encryptionKey ELSE newKey,
                     !.status = "encrypting",
                     !.keyFile = [written |-> TRUE, key |-> run.closureKey],
                     !.encryptCall = [called |-> TRUE, key |-> run.closureKey,
                                      promise |-> encryptFile(run.file, run.closureKey, iv)],
                     !.pc = "encrypting"]

\* handleUpload without its test of the file size
handleUploadStartNoSizeGuard(u, newKey, iv) ==
    handleUploadBody([FreshRun(u) EXCEPT !.closureKey = u.encryptionKey], newKey, iv)

\* handleUpload from its first statement to its first await
handleUploadStart(u, newKey, iv) ==
    LET run == [FreshRun(u) EXCEPT !.closureKey = u.encryptionKey]
    IN  IF run.file.size > MAX_FILE_SIZE
        THEN [run EXCEPT !.status = "error", !.pc = "done"]
        ELSE handleUploadBody(run, newKey, iv)

\* The upload button is pressed: it is enabled with a file selected, no
\* upload running or succeeded, and a key entered if encryption is on
HandleUpload(newKey, iv) ==
    /\ upload.pc \in {"idle", "done"}
    /\ upload.file # NoFile
    /\ ~upload.uploading
    /\ upload.status # "success"
    /\ ~(upload.useEncryption /\ upload.encryptionKey = <<>>)
    /\ upload' = handleUploadStart(upload, newKey, iv)
    /\ UNCHANGED storage
    /\ UNCHANGED <<merkleVars, shamirVars, fileVars, onionVars, keyFileVars, bruteVars,
                 securityVars, auditVars, storeVars>>

\* await encryptFile(file, encryptionKey) settles
EncryptSettles ==
    /\ upload.pc = "encrypting"
    /\ LET result == upload.encryptCall.promise
       IN  upload' =
               IF result.kind = "returned"
               THEN [upload EXCEPT !.metadata = result.metadata,
                                   !.status = "uploading",
                                   !.storeCall = [called |-> TRUE, resolved |-> FALSE],
                                   !.pc = "storing"]
               ELSE [upload EXCEPT !.uploading = FALSE, !.status = "error",
                                   !.pc = "done"]
    /\ UNCHANGED storage
    /\ UNCHANGED <<merkleVars, shamirVars, fileVars, onionVars, keyFileVars, bruteVars,
                 securityVars, auditVars, storeVars>>

\* await storeFile(fileToUpload, metadata) resolves with an IPFS hash
StoreResolves(hash) ==
    /\ upload.pc = "storing"
    /\ upload' = [upload EXCEPT !.storeCall.resolved = TRUE, !.ipfsHash = hash,
                                !.status = "success", !.uploading = FALSE,
                                !.pc = "done"]
    /\ LET kept == IF upload.useEncryption /\ upload.rememberKey
                      /\ upload.closureKey # <<>>
                   THEN saveEncryptionKey(storage, upload.closureKey)
                   ELSE storage
       IN  storage' = IF upload.useEncryption /\ upload.metadata # NoMetadata
                      THEN [kept EXCEPT !.metadata = [present |-> TRUE, ipfsHash |-> hash,
                                                      metadata |-> upload.metadata]]
                      ELSE kept
    /\ UNCHANGED <<merkleVars, shamirVars, fileVars, onionVars, keyFileVars, bruteVars,
                 securityVars, auditVars, storeVars>>

\* await storeFile(fileToUpload, metadata) rejects
StoreRejects ==
    /\ upload.pc = "storing"
    /\ upload' = [upload EXCEPT !.status = "error", !.uploading = FALSE, !.pc = "done"]
    /\ UNCHANGED storage
    /\ UNCHANGED <<merkleVars, shamirVars, fileVars, onionVars, keyFileVars, bruteVars,
                 securityVars, auditVars, storeVars>>

NextUpload ==
    \/ \E key \in EnteredKeys : EnterKey(key)
    \/ \E checked \in BOOLEAN : HandleRememberKeyChange(checked)
    \/ \E newKey \in GeneratedKeys : \E iv \in IvSet : HandleUpload(newKey, iv)
    \/ EncryptSettles
    \/ \E hash \in IpfsHashes : StoreResolves(hash)
    \/ StoreRejects

SpecUpload == InitUpload /\ [][NextUpload]_vars


\* C25: in an upload with encryption on, the key written to the key file is
\* the key handed to encryptFile; and if the key entered was not a string of
\* 32 hex digits, both are the key generated in that upload (the one
\* setEncryptionKey was given), a string of 32 hex digits
C25_GeneratedKeyIsUsed ==
    (upload.uploading /\ upload.encryptCall.called) =>
        /\ upload.keyFile.written
        /\ upload.keyFile.key = upload.encryptCall.key
        /\ (~IsHexOfLength(upload.closureKey, 32) =>
               /\ upload.encryptionKey \in GeneratedKeys
               /\ upload.keyFile.key = upload.encryptionKey
               /\ upload.encryptCall.key = upload.encryptionKey)


\* C27: the saved key changes under handleRememberKeyChange only as
\* saveEncryptionKey and clearEncryptionKey allow (written only with the
\* persisted setting rememberPassword on, otherwise left as it was); and
\* switching "Remember encryption key" on with a key entered leaves that key
\* saved
C27_RememberStoresKey ==
    [][\A checked \in BOOLEAN :
          HandleRememberKeyChange(checked) =>
              /\ (checked /\ ~storage.rememberPassword =>
                     storage'.encryptionKey = storage.encryptionKey)
              /\ (checked /\ upload.encryptionKey # <<>> =>
                     storage'.encryptionKey =
                         [present |-> TRUE, key |-> upload.encryptionKey])]_vars


\* The upload with the promises handleUpload awaits settling: the event loop
\* resumes the handler once encryptFile, and once storeFile, has resolved or
\* rejected
SpecUploadLive ==
    /\ InitUpload
    /\ [][NextUpload]_vars
    /\ WF_vars(EncryptSettles)
    /\ WF_vars((\E hash \in IpfsHashes : StoreResolves(hash)) \/ StoreRejects)

\* What holds of handleUpload at every moment: a run that has ended has left
\* uploading false and the status "success" or "error"; the status is
\* "success" only after storeFile resolved; encryption metadata is saved only
\* then, under the IPFS hash storeFile returned; a run on a file above 5 MB
\* has ended in "error" with no key file, no encryptFile and no storeFile call
UploadOutcome ==
    /\ upload.pc = "done" =>
          /\ ~upload.uploading
          /\ upload.status \in {"success", "error"}
    /\ upload.status = "success" =>
          /\ upload.storeCall.called
          /\ upload.storeCall.resolved
    /\ storage.metadata.present =>
          /\ upload.storeCall.resolved
          /\ upload.status = "success"
          /\ storage.metadata.ipfsHash = upload.ipfsHash
          /\ storage.metadata.metadata = upload.metadata
    /\ (upload.pc # "idle" /\ upload.file.size > MAX_FILE_SIZE) =>
          /\ upload.pc = "done"
          /\ upload.status = "error"
          /\ ~upload.keyFile.written
          /\ ~upload.encryptCall.called
          /\ ~upload.storeCall.called

InitSecurity ==
    /\ security = NoSecurity
    /\ MerkleIdle
    /\ ShamirIdle
    /\ FileIdle
    /\ OnionIdle
    /\ KeyFileIdle
    /\ BruteIdle
    /\ UploadIdle
    /\ AuditIdle
    /\ StoreIdle

\* applySecurityLevel(level), with the saveSecuritySettings it ends in
ApplySecurityLevel(level) ==
    /\ Len(security.applied) < MaxApplied
    /\ LET newSettings == applySecurityLevel(security.stored, level)
       IN  security' = [stored |-> [present |-> TRUE, settings |-> newSettings],
                        returned |-> newSettings,
                        applied |-> Append(security.applied, level),
                        logged |-> security.logged + 1]
    /\ UNCHANGED <<merkleVars, shamirVars, fileVars, onionVars, keyFileVars, bruteVars,
                 uploadVars, auditVars, storeVars>>

NextSecurity == \E level \in SecurityLevels : ApplySecurityLevel(level)

SpecSecurity == InitSecurity /\ [][NextSecurity]_vars

\* C26: whatever presets were applied before, the settings applySecurityLevel
\* returns and stores are the preset laid over DEFAULT_SECURITY_SETTINGS; for
\* "standard" they are DEFAULT_SECURITY_SETTINGS
C26_PresetDependsOnPresetOnly ==
    security.applied # <<>> =>
        LET level == security.applied[Len(security.applied)]
            expected == MergeSettings(DEFAULT_SECURITY_SETTINGS,
                                      SECURITY_LEVEL_SETTINGS[level])
        IN  /\ security.returned = expected
            /\ security.stored = [present |-> TRUE, settings |-> expected]
            /\ (level = "standard" => security.returned = DEFAULT_SECURITY_SETTINGS)


(***************************************************************************)
(* The audit log as a state machine (src/lib/audit.ts).  The stored JSON   *)
(* text is kept as the list of events it parses to.  A call of             *)
(* logAuditEvent runs to its await of getAuditEvents(), which has read the *)
(* store by then, and is resumed later to write the list back.             *)
(***************************************************************************)

InitAudit ==
    /\ audit = NoAudit
    /\ MerkleIdle
    /\ ShamirIdle
    /\ FileIdle
    /\ OnionIdle
    /\ KeyFileIdle
    /\ BruteIdle
    /\ UploadIdle
    /\ SecurityIdle
    /\ StoreIdle

\* getAuditEvents on the store
getAuditEvents(stored) == stored

\* logAuditEvent up to its await: the id is made, the event completed, and
\* getAuditEvents() has read the store
LogAuditEventCalled(p, type) ==
    /\ audit.calls[p].pc = "idle"
    /\ audit.issued < MaxEvents
    /\ audit' = [audit EXCEPT
                    !.issued = audit.issued + 1,
                    !.calls[p] = [pc |-> "awaiting",
                                  completeEvent |-> [id |-> audit.issued + 1, type |-> type],
                                  existingEvents |-> getAuditEvents(audit.stored)]]
    /\ UNCHANGED <<merkleVars, shamirVars, fileVars, onionVars, keyFileVars, bruteVars,
                 uploadVars, securityVars, storeVars>>

\* logAuditEvent resumed after the await: the list it read, with its event
\* in front, is written to the store, and the call resolves
LogAuditEventResumed(p) ==
    /\ audit.calls[p].pc = "awaiting"
    /\ audit' = [audit EXCEPT
                    !.stored = <<audit.calls[p].completeEvent>>
                               \o audit.calls[p].existingEvents,
                    !.resolved = Append(audit.resolved, audit.calls[p].completeEvent.id),
                    !.calls[p] = NoAuditCall]
    /\ UNCHANGED <<merkleVars, shamirVars, fileVars, onionVars, keyFileVars, bruteVars,
                 uploadVars, securityVars, storeVars>>

\* clearAuditEvents
ClearAuditEvents ==
    /\ audit.stored # <<>>
    /\ audit' = [audit EXCEPT !.stored = <<>>, !.resolved = <<>>]
    /\ UNCHANGED <<merkleVars, shamirVars, fileVars, onionVars, keyFileVars, bruteVars,
                 uploadVars, securityVars, storeVars>>

NextAudit ==
    \/ \E p \in Callers : \E type \in AuditEventTypes : LogAuditEventCalled(p, type)
    \/ \E p \in Callers : LogAuditEventResumed(p)
    \/ ClearAuditEvents

SpecAudit == InitAudit /\ [][NextAudit]_vars

\* Where the event with the given id stands in the list getAuditEvents
\* returns; 0 if it is not in it
StoredAt(id) ==
    LET events == getAuditEvents(audit.stored)
        at == {i \in 1..Len(events) : events[i].id = id}
    IN  IF at = {} THEN 0 ELSE CHOOSE i \in at : TRUE

\* C28: every event whose logAuditEvent call resolved since the last
\* clearAuditEvents is in the list getAuditEvents returns, and an event that
\* resolved later stands before one that resolved earlier
C28_NoAuditEventLost ==
    /\ \A i \in 1..Len(audit.resolved) : StoredAt(audit.resolved[i]) > 0
    /\ \A i \in 1..Len(audit.resolved) : \A j \in 1..Len(audit.resolved) :
          i < j => StoredAt(audit.resolved[j]) < StoredAt(audit.resolved[i])


(***************************************************************************)
(* storeFile as a state machine: one action for the call and one for each  *)
(* promise it awaits.  store.steps lists the calls storeFile has made,     *)
(* store.events the "upload" events its logAuditEvent calls have appended. *)
(***************************************************************************)

InitStore ==
    /\ \E f \in StoreFiles : store = [NoStore EXCEPT !.file = f]
    /\ MerkleIdle
    /\ ShamirIdle
    /\ FileIdle
    /\ OnionIdle
    /\ KeyFileIdle
    /\ BruteIdle
    /\ UploadIdle
    /\ SecurityIdle
    /\ AuditIdle

\* Control passes to the catch block with the error: the failed upload is
\* handed to logAuditEvent
Caught(s, error) ==
    [s EXCEPT !.error = error, !.steps = Append(s.steps, "logAuditEvent"),
              !.pc = "logError"]

\* storeFile is called: uploadToPinata(file)
StoreFile ==
    /\ store.pc = "idle"
    /\ store' = [store EXCEPT !.steps = <<"uploadToPinata">>, !.pc = "uploadToPinata"]
    /\ UNCHANGED <<merkleVars, shamirVars, fileVars, onionVars, keyFileVars, bruteVars,
                 uploadVars, securityVars, auditVars>>

\* await uploadToPinata(file) resolves: getContract()
PinataResolves(hash) ==
    /\ store.pc = "uploadToPinata"
    /\ store' = [store EXCEPT !.ipfsHash = hash,
                              !.steps = Append(store.steps, "getContract"),
                              !.pc = "getContract"]
    /\ UNCHANGED <<merkleVars, shamirVars, fileVars, onionVars, keyFileVars, bruteVars,
                 uploadVars, securityVars, auditVars>>

\* await getContract() resolves: contract.addFile(fileName, ipfsHash, ...)
GetContractResolves ==
    /\ store.pc = "getContract"
    /\ store' = [store EXCEPT
                    !.sent = [nameLength |-> Truncated(store.file.nameLength, 100),
                              typeLength |-> Truncated(store.file.typeLength, 50)],
                    !.steps = Append(store.steps, "addFile"),
                    !.pc = "addFile"]
    /\ UNCHANGED <<merkleVars, shamirVars, fileVars, onionVars, keyFileVars, bruteVars,
                 uploadVars, securityVars, auditVars>>

\* await contract.addFile(...) resolves: tx.wait()
AddFileResolves ==
    /\ store.pc = "addFile"
    /\ store' = [store EXCEPT !.steps = Append(store.steps, "wait"), !.pc = "wait"]
    /\ UNCHANGED <<merkleVars, shamirVars, fileVars, onionVars, keyFileVars, bruteVars,
                 uploadVars, securityVars, auditVars>>

\* await tx.wait() resolves with a receipt: status 0 throws, otherwise the
\* file id is looked up and the upload is handed to logAuditEvent
WaitResolves(status, fileId) ==
    /\ store.pc = "wait"
    /\ store' =
          IF status = 0
          THEN Caught([store EXCEPT !.receiptStatus = status],
                      [message |-> <<"Transaction", "failed", "on", "the", "blockchain">>,
                       code |-> 0])
          ELSE [store EXCEPT !.receiptStatus = status, !.fileId = fileId,
                             !.steps = Append(store.steps, "logAuditEvent"),
                             !.pc = "logSuccess"]
    /\ UNCHANGED <<merkleVars, shamirVars, fileVars, onionVars, keyFileVars, bruteVars,
                 uploadVars, securityVars, auditVars>>

\* One of the awaited promises before the audit log rejects
Rejects(error) ==
    /\ \/ store.pc = "uploadToPinata" /\ error \in PinataErrors
       \/ store.pc = "getContract" /\ error \in ContractErrors
       \/ store.pc = "addFile" /\ error \in AddFileErrors
       \/ store.pc = "wait" /\ error \in WaitErrors
    /\ store' = Caught(store, error)
    /\ UNCHANGED <<merkleVars, shamirVars, fileVars, onionVars, keyFileVars, bruteVars,
                 uploadVars, securityVars, auditVars>>

\* await logAuditEvent({type: "upload", status: "success", ...}) settles: if
\* it wrote, the event is in the log and storeFile returns; if setItem threw,
\* logAuditEvent rejects and control passes to the catch block
LogSuccessSettles(written) ==
    /\ store.pc = "logSuccess"
    /\ store' =
          IF written
          THEN [store EXCEPT
                   !.events = Append(store.events,
                                     [type |-> "upload", status |-> "success",
                                      nameLength |-> store.sent.nameLength]),
                   !.outcome = "resolved", !.pc = "done"]
          ELSE Caught(store, QuotaExceeded)
    /\ UNCHANGED <<merkleVars, shamirVars, fileVars, onionVars, keyFileVars, bruteVars,
                 uploadVars, securityVars, auditVars>>

\* await logAuditEvent({type: "upload", status: "error", ...}) in the catch
\* block settles, written or not, and the catch block throws
LogErrorSettles(written) ==
    /\ store.pc = "logError"
    /\ store' = [store EXCEPT
                    !.events = IF written
                               THEN Append(store.events,
                                           [type |-> "upload", status |-> "error",
                                            nameLength |-> store.file.nameLength])
                               ELSE store.events,
                    !.thrown = Rethrown(store.error),
                    !.outcome = "rejected", !.pc = "done"]
    /\ UNCHANGED <<merkleVars, shamirVars, fileVars, onionVars, keyFileVars, bruteVars,
                 uploadVars, securityVars, auditVars>>

NextStore ==
    \/ StoreFile
    \/ \E hash \in IpfsHashes \cup {"QmB"} : PinataResolves(hash)
    \/ GetContractResolves
    \/ AddFileResolves
    \/ \E status \in {0, 1} : \E fileId \in FileIds : WaitResolves(status, fileId)
    \/ \E error \in PinataErrors \cup ContractErrors \cup AddFileErrors \cup WaitErrors :
          Rejects(error)
    \/ \E written \in BOOLEAN : LogSuccessSettles(written)
    \/ \E written \in BOOLEAN : LogErrorSettles(written)

SpecStore == InitStore /\ [][NextStore]_vars

\* The calls of storeFile in their order
StoreSteps == <<"uploadToPinata", "getContract", "addFile", "wait", "logAuditEvent">>

\* C29: the calls storeFile has made are in the order IPFS upload, contract
\* addFile, wait for the receipt, audit log; a call that has settled has
\* appended exactly one "upload" event, with status "success" if it resolved
\* and "error" if it rejected; and a call whose receipt had status 1 does not
\* reject
C29_OneUploadEventPerCall ==
    /\ \A i \in 1..Len(store.steps) : \A j \in 1..Len(store.steps) :
          (i < j /\ store.steps[i] # "logAuditEvent") =>
              \E a \in 1..Len(StoreSteps) : \E b \in 1..Len(StoreSteps) :
                  a < b /\ StoreSteps[a] = store.steps[i] /\ StoreSteps[b] = store.steps[j]
    /\ store.outcome # "pending" =>
          /\ Len(store.events) = 1
          /\ store.events[1].type = "upload"
          /\ (store.events[1].status = "success" <=> store.outcome = "resolved")
          /\ (store.events[1].status = "error" <=> store.outcome = "rejected")
    /\ store.receiptStatus = 1 => store.outcome # "rejected"

====
